---- MODULE Spec2Model ----
(***************************************************************************)
(* OCR admission-forms backend: the provider factory, the multi-provider   *)
(* selector and the per-page aggregation of the upload / re-extract        *)
(* routes, as state machines.                                              *)
(*                                                                         *)
(* Two backend classes are modelled: the local engine (TesseractProvider,  *)
(* registered as "tesseract") and one cloud backend (GoogleVisionProvider, *)
(* registered as "google-vision" and under the alias "google").  The other *)
(* cloud backends are registered by ocr_factory.py in exactly the same way *)
(* as GoogleVisionProvider (azure-vision/azure with an alias, the rest     *)
(* without).                                                               *)
(*                                                                         *)
(* Numbers: a confidence is an integer 0..100; a score is kept times 1000  *)
(* and an aggregated confidence in hundredths, so that the comparisons and *)
(* the rounding of the code are exact integer arithmetic.                  *)
(*                                                                         *)
(* A text is [lead, body, trail]: the number of leading whitespace         *)
(* characters, the length of the part between the first and the last       *)
(* non-whitespace character, the number of trailing whitespace characters. *)
(* A text without any non-whitespace character has body = 0 and all its    *)
(* characters in lead.                                                     *)
(***************************************************************************)
EXTENDS Integers, Sequences, FiniteSets, TLC

VARIABLES
    settings,    \* backend.config.settings: OCR_PROVIDER and the OCR_ENABLE_* flags
    installed,   \* the provider classes whose is_available() returns True
    multi,       \* a MultiProviderOCR instance: its available_providers snapshot
    op,          \* the operation that ran last
    arg,         \* its inputs
    ret,         \* what it returned or raised
    calls,       \* the extract_text calls it made, in order
    form         \* the AdmissionForm row the routes work on

vars == <<settings, installed, multi, op, arg, ret, calls, form>>

----------------------------------------------------------------------------
(* Bounds *)

\* longest explicit providers list passed to extract_with_best_provider
MaxProviders == 2

\* most pages of one document
MaxPages == 3

----------------------------------------------------------------------------
(* Texts *)

Text(l, b, t) == [lead |-> l, body |-> b, trail |-> t]

EmptyText == Text(0, 0, 0)

\* len(text)
TextLen(t) == t.lead + t.body + t.trail

\* text.strip()
Strip(t) == Text(0, t.body, 0)

\* bool(text): a non-empty string is truthy, whitespace included
Truthy(t) == TextLen(t) > 0

----------------------------------------------------------------------------
(* backend/config.py, backend/ocr/ocr_factory.py *)

TesseractProvider == "TesseractProvider"
GoogleVisionProvider == "GoogleVisionProvider"

ProviderClasses == {TesseractProvider, GoogleVisionProvider}

\* the keys _get_providers can register, in insertion order
RegisteredNames == <<"tesseract", "google-vision", "google">>

\* provider names a caller may pass: the registered ones and one unknown
AllNames == {"tesseract", "google-vision", "google", "bogus"}

\* the class registered under a name
ClassOf(name) ==
    IF name = "tesseract" THEN TesseractProvider ELSE GoogleVisionProvider

\* Settings.ensure_provider_configuration: the names the flags enable, "multi"
\* and "best" with two names or more, and OCR_PROVIDER among them
EnabledMap(s) ==
    LET names == (IF s.OCR_ENABLE_TESSERACT THEN {"tesseract"} ELSE {})
                 \cup (IF s.OCR_ENABLE_GOOGLE_VISION
                       THEN {"google-vision", "google"} ELSE {})
    IN  IF Cardinality(names) >= 2 THEN names \cup {"multi", "best"} ELSE names

ValidSettings ==
    { s \in [OCR_PROVIDER : {"tesseract", "google"},
             OCR_ENABLE_TESSERACT : BOOLEAN,
             OCR_ENABLE_GOOGLE_VISION : BOOLEAN] :
        /\ EnabledMap(s) # {}
        /\ s.OCR_PROVIDER \in EnabledMap(s) }

\* OCRFactory._get_providers: the dict's keys in insertion order
GetProviders(s) ==
    SelectSeq(RegisteredNames,
              LAMBDA n : IF n = "tesseract" THEN s.OCR_ENABLE_TESSERACT
                         ELSE s.OCR_ENABLE_GOOGLE_VISION)

Range(q) == { q[i] : i \in DOMAIN q }

\* provider_class().is_available()
IsAvailable(inst, name) == ClassOf(name) \in inst

\* a factory that hands out any backend class, enabled and available or not
CreateProviderUnchecked(s, inst, name) ==
    IF name \in AllNames \ {"bogus"}
    THEN [ok |-> TRUE, cls |-> ClassOf(name)]
    ELSE [ok |-> FALSE, cls |-> "none"]

\* OCRFactory.create_provider: [ok, cls]; ok = FALSE is the ValueError
CreateProvider(s, inst, name) ==
    IF name \notin Range(GetProviders(s))
    THEN [ok |-> FALSE, cls |-> "none"]
    ELSE IF ~IsAvailable(inst, name)
         THEN [ok |-> FALSE, cls |-> "none"]
         ELSE [ok |-> TRUE, cls |-> ClassOf(name)]

\* get_ocr_provider(None): the default from the settings
DefaultName(s) == s.OCR_PROVIDER

\* OCRFactory.get_available_providers
GetAvailableProviders(s, inst) ==
    LET providers == GetProviders(s)
        available == SelectSeq(providers, LAMBDA n : IsAvailable(inst, n))
        default_provider == DefaultName(s)
    IN  IF available # <<>> THEN available
        ELSE IF default_provider \notin Range(providers) THEN <<>>
        ELSE IF IsAvailable(inst, default_provider) THEN <<default_provider>>
        ELSE \* the first provider that is available, if any: none is
             IF available = <<>> THEN <<>> ELSE <<Head(available)>>

----------------------------------------------------------------------------
(* A backend's extract_text on one image: it raises, or returns a result *)

Outcome(f, c, t) == [fail |-> f, confidence |-> c, raw_text |-> t]

Raises == Outcome(TRUE, 0, EmptyText)

\* what a backend may do with an image: raise; a confident result of 10
\* characters; a less confident one of 2000 characters
BackendOutcomes ==
    { Raises,
      Outcome(FALSE, 90, Text(0, 10, 0)),
      Outcome(FALSE, 70, Text(0, 2000, 0)) }

\* one outcome per registered name; a name that is no backend can only raise
OutcomeMaps ==
    { [n \in AllNames |-> IF n = "bogus" THEN Raises ELSE o[n]] :
        o \in [AllNames \ {"bogus"} -> BackendOutcomes] }

\* a result dict, result['provider_used'] set
Result(o, name) ==
    [confidence |-> o.confidence, raw_text |-> o.raw_text, provider_used |-> name]

NoResult == [confidence |-> 0, raw_text |-> EmptyText, provider_used |-> "none"]

----------------------------------------------------------------------------
(* backend/ocr/multi_provider.py *)

\* the divisor of the text-length bonus
TextLenDivisor == 1000

\* a score that ignores the text
ScoreResultConfidenceOnly(result) == result.confidence * TextLenDivisor

\* MultiProviderOCR._score_result, times TextLenDivisor
ScoreResult(result) ==
    LET confidence == result.confidence
        text == result.raw_text
        text_length == TextLen(Strip(text))
    IN  confidence * (TextLenDivisor + text_length)

\* max(results, key=...): the index of the first element with the greatest key
MaxIndex(keys) ==
    CHOOSE i \in DOMAIN keys :
        /\ \A j \in DOMAIN keys : keys[j] <= keys[i]
        /\ \A j \in DOMAIN keys : j < i => keys[j] < keys[i]

RECURSIVE TryProviders(_, _, _, _, _)
\* a loop that gives up at the first backend that fails
TryProvidersStopAtFailure(s, inst, providers, out, st) ==
    IF providers = <<>> THEN st
    ELSE LET provider_name == Head(providers)
             provider == CreateProvider(s, inst, provider_name)
         IN  IF ~provider.ok THEN st
             ELSE LET st1 == [st EXCEPT !.calls =
                                Append(@, [name |-> provider_name, cls |-> provider.cls])]
                  IN  IF out[provider_name].fail THEN st1
                      ELSE TryProviders(s, inst, Tail(providers), out,
                             [st1 EXCEPT !.results =
                                Append(@, Result(out[provider_name], provider_name))])

\* the loop of extract_with_best_provider over the rest of the providers list:
\* st = [results, calls] so far
TryProviders(s, inst, providers, out, st) ==
    IF providers = <<>> THEN st
    ELSE LET provider_name == Head(providers)
             provider == CreateProvider(s, inst, provider_name)
         IN  IF ~provider.ok
             THEN TryProviders(s, inst, Tail(providers), out, st)
             ELSE LET st1 == [st EXCEPT !.calls =
                                Append(@, [name |-> provider_name, cls |-> provider.cls])]
                  IN  IF out[provider_name].fail
                      THEN TryProviders(s, inst, Tail(providers), out, st1)
                      ELSE TryProviders(s, inst, Tail(providers), out,
                             [st1 EXCEPT !.results =
                                Append(@, Result(out[provider_name], provider_name))])

\* MultiProviderOCR.extract_with_best_provider: [raised, best, results, calls]
ExtractWithBestProvider(s, inst, providers, out) ==
    IF providers = <<>>
    THEN [raised |-> "ValueError", best |-> NoResult, results |-> <<>>, calls |-> <<>>]
    ELSE LET st == TryProviders(s, inst, providers, out,
                                [results |-> <<>>, calls |-> <<>>])
             results == st.results
         IN  IF results = <<>>
             THEN [raised |-> "Exception", best |-> NoResult,
                   results |-> <<>>, calls |-> st.calls]
             ELSE [raised |-> "none",
                   best |-> results[MaxIndex([i \in DOMAIN results |->
                                               ScoreResult(results[i])])],
                   results |-> results, calls |-> st.calls]

\* the names of the tasks extract_with_all_providers creates: the providers
\* whose creation did not raise, in order
TaskNames(s, inst, providers) ==
    SelectSeq(providers, LAMBDA n : CreateProvider(s, inst, n).ok)

\* all_results after the collecting loop: results[i] is stored under the key
\* key_of[i]; a later store under the same key overwrites an earlier one
Collect(key_of, tasks, out) ==
    LET good == { i \in DOMAIN tasks : ~out[tasks[i]].fail }
        keys == { key_of[i] : i \in good }
        last(k) == CHOOSE i \in good :
                      /\ key_of[i] = k
                      /\ \A j \in good : key_of[j] = k => j <= i
    IN  [k \in keys |-> Result(out[tasks[last(k)]], tasks[last(k)])]

\* the keys of all_results in insertion order (first store of each key)
KeyOrder(key_of, tasks, out) ==
    SelectSeq(key_of,
              LAMBDA k : \E i \in DOMAIN tasks :
                            /\ i <= Len(key_of) /\ key_of[i] = k
                            /\ ~out[tasks[i]].fail)

\* MultiProviderOCR.extract_with_all_providers:
\* [raised, best_provider, best_result, all_results, calls]
ExtractWithAllProviders(s, inst, providers, out) ==
    LET tasks == TaskNames(s, inst, providers)
        task_calls == [i \in DOMAIN tasks |->
                         [name |-> tasks[i], cls |-> ClassOf(tasks[i])]]
        \* results[i] is collected under providers[i]
        key_of == SubSeq(providers, 1, Len(tasks))
        all_results == Collect(key_of, tasks, out)
        order == KeyOrder(key_of, tasks, out)
    IN  IF tasks = <<>>
        THEN [raised |-> "Exception", best_provider |-> "none",
              best_result |-> NoResult, all_results |-> <<>>, calls |-> <<>>]
        ELSE IF DOMAIN all_results = {}
        THEN [raised |-> "Exception", best_provider |-> "none",
              best_result |-> NoResult, all_results |-> <<>>, calls |-> task_calls]
        ELSE LET best_provider ==
                    order[MaxIndex([i \in DOMAIN order |->
                                      ScoreResult(all_results[order[i]])])]
             IN  [raised |-> "none", best_provider |-> best_provider,
                  best_result |-> all_results[best_provider],
                  all_results |-> all_results, calls |-> task_calls]

----------------------------------------------------------------------------
(* backend/api/routes/upload.py, backend/api/routes/forms.py: the page loop *)

\* round(sum / count, 2) in hundredths; 0.0 for an empty list
RoundedMean(sum, count) ==
    IF count = 0 THEN 0 ELSE (200 * sum + count) \div (2 * count)

RECURSIVE SumSeq(_)
SumSeq(q) == IF q = <<>> THEN 0 ELSE Head(q) + SumSeq(Tail(q))

\* a numbering by position in the surviving list
PageNumberRenumbered(page_num, page_results) == Len(page_results) + 1

\* 'page': page_num + 1, the page number recorded for the page at 1-based
\* position page_num
PageNumber(page_num, page_results) == page_num

\* a marker carrying the 0-based index
PageFragmentZeroBased(page_num, raw_text) ==
    [page |-> page_num - 1, text |-> raw_text]

\* f"\n--- Page {page_num} ---\n{raw_text}": the marker and the text after it
PageFragment(page_num, raw_text) == [page |-> page_num, text |-> raw_text]

\* the OCR call for one page: [ok, result, calls]; ok = FALSE is an exception
\* raised inside the page's try block
ExtractPage(s, inst, provider_name, snapshot, out) ==
    IF provider_name = "best"
    THEN LET r == ExtractWithBestProvider(s, inst, snapshot, out)
         IN  [ok |-> r.raised = "none", result |-> r.best, calls |-> r.calls]
    ELSE [ok |-> ~out[provider_name].fail,
          result |-> Result(out[provider_name], "none"),
          calls |-> <<[name |-> provider_name, cls |-> ClassOf(provider_name)]>>]

NewAcc(selected) ==
    [all_raw_text |-> <<>>, all_confidences |-> <<>>, page_results |-> <<>>,
     calls |-> <<>>, selected |-> selected, raised |-> FALSE]

\* the body of the page's try block after the OCR call returned page_result:
\* the accumulators after the page
PageDone(with_provider, provider_name, page_num, page_result, acc) ==
    LET selected == IF provider_name = "best" /\ page_num = 1
                    THEN page_result.provider_used
                    ELSE acc.selected
        has_text == Truthy(page_result.raw_text)
        entry == [page |-> PageNumber(page_num, acc.page_results),
                  raw_text |-> page_result.raw_text,
                  confidence |-> page_result.confidence,
                  provider |->
                     IF ~with_provider THEN "none"
                     ELSE IF page_result.provider_used # "none"
                          THEN page_result.provider_used
                          ELSE selected]
    IN  [acc EXCEPT
           !.selected = selected,
           !.all_raw_text =
               IF has_text
               THEN Append(@, PageFragment(page_num, page_result.raw_text))
               ELSE @,
           !.all_confidences =
               IF has_text /\ page_result.confidence # 0
               THEN Append(@, page_result.confidence)
               ELSE @,
           !.page_results = Append(@, entry)]

\* an iteration without the per-page try: a page that raises ends the loop
PageStepNoTry(with_provider, provider_name, page_num, pr, acc) ==
    IF acc.raised THEN acc
    ELSE IF ~pr.ok
    THEN [acc EXCEPT !.calls = @ \o pr.calls, !.raised = TRUE]
    ELSE PageDone(with_provider, provider_name, page_num, pr.result,
                  [acc EXCEPT !.calls = @ \o pr.calls])

\* one iteration of the loop: pr is the outcome of the page's OCR call
PageStep(with_provider, provider_name, page_num, pr, acc) ==
    IF ~pr.ok
    THEN \* except Exception as page_error: continue
         [acc EXCEPT !.calls = @ \o pr.calls]
    ELSE PageDone(with_provider, provider_name, page_num, pr.result,
                  [acc EXCEPT !.calls = @ \o pr.calls])

\* for page_num, page_image in enumerate(pages): ... over the pages from
\* page_num on; outs[p] is what the backends do with page p.  with_provider
\* is TRUE for re_extract_form, whose entries carry a 'provider' key.
RECURSIVE PageLoop(_, _, _, _, _, _, _, _)
PageLoop(with_provider, s, inst, provider_name, snapshot, outs, page_num, acc) ==
    IF page_num > Len(outs) THEN acc
    ELSE PageLoop(with_provider, s, inst, provider_name, snapshot, outs,
                  page_num + 1,
                  PageStep(with_provider, provider_name, page_num,
                           ExtractPage(s, inst, provider_name, snapshot,
                                       outs[page_num]),
                           acc))

\* len(pages)
PagesProcessed(outs, page_results) == Len(outs)

\* ocr_result of a multi-page extraction
Aggregate(acc, outs, provider) ==
    [aggregated |-> TRUE,
     raw_text |-> acc.all_raw_text,
     single_text |-> EmptyText,
     confidence |-> RoundedMean(SumSeq(acc.all_confidences),
                                Len(acc.all_confidences)),
     provider |-> provider,
     pages_processed |-> PagesProcessed(outs, acc.page_results),
     page_results |-> acc.page_results]

\* ocr_result of a single image: the backend's own result dict; the local
\* engine's dict carries pages_processed = 1 and one page_results entry, and
\* re_extract_form adds them when they are missing (fill = TRUE)
SingleResult(result, cls, provider, fill) ==
    [aggregated |-> FALSE,
     raw_text |-> <<>>,
     single_text |-> result.raw_text,
     confidence |-> 100 * result.confidence,
     provider |-> provider,
     pages_processed |-> IF fill \/ cls = TesseractProvider THEN 1 ELSE 0,
     page_results |->
        IF cls = TesseractProvider
        THEN <<[page |-> 1, raw_text |-> result.raw_text,
                confidence |-> result.confidence, provider |-> "none"]>>
        ELSE IF fill
        THEN <<[page |-> 1, raw_text |-> result.raw_text,
                confidence |-> result.confidence, provider |-> provider]>>
        ELSE <<>>]

NoOcrResult ==
    [aggregated |-> FALSE, raw_text |-> <<>>, single_text |-> EmptyText,
     confidence |-> 0, provider |-> "none", pages_processed |-> 0,
     page_results |-> <<>>]

----------------------------------------------------------------------------
(* The request handlers: [form, code, ocr, calls] *)

\* settings.ALLOWED_EXTENSIONS, as far as the routes tell them apart
AllowedExtensions == {"pdf", "png"}

\* what the backends do with page p: the named backend is down, the others
\* all see the page the same way
OutFor(o, down) ==
    [n \in AllNames |-> IF n = "bogus" \/ n = down THEN Raises ELSE o]

OutsOf(file) == [p \in DOMAIN file.outs |-> OutFor(file.outs[p], file.down)]

Failed(f, code, calls_made) ==
    [form |-> f, code |-> code, ocr |-> NoOcrResult, calls |-> calls_made]

\* the try block of upload_form (lines 50-180) on the new row f
UploadExtract(s, inst, f, file, provider_name) ==
    LET error == [f EXCEPT !.status = "error"]
        outs == OutsOf(file)
    IN  IF file.ext = "pdf"
        THEN IF ~file.loadable THEN Failed(error, 500, <<>>)
             ELSE IF provider_name # "best" /\ ~CreateProvider(s, inst, provider_name).ok
             THEN Failed(error, 500, <<>>)
             ELSE LET acc == PageLoop(FALSE, s, inst, provider_name,
                                      GetAvailableProviders(s, inst), outs, 1,
                                      NewAcc(f.ocr_provider))
                      f1 == [f EXCEPT !.ocr_provider = acc.selected]
                  IN  IF acc.raised
                      THEN Failed([f1 EXCEPT !.status = "error"], 500, acc.calls)
                      ELSE [form |-> [f1 EXCEPT !.status = "extracted"],
                            code |-> 201,
                            ocr |-> Aggregate(acc, outs, f1.ocr_provider),
                            calls |-> acc.calls]
        ELSE IF ~file.loadable THEN Failed(error, 500, <<>>)
             ELSE IF provider_name = "best"
             THEN LET r == ExtractWithBestProvider(s, inst,
                              GetAvailableProviders(s, inst), outs[1])
                  IN  IF r.raised # "none" THEN Failed(error, 500, r.calls)
                      ELSE [form |-> [f EXCEPT !.status = "extracted",
                                        !.ocr_provider = r.best.provider_used],
                            code |-> 201,
                            ocr |-> SingleResult(r.best, ClassOf(r.best.provider_used),
                                                 r.best.provider_used, FALSE),
                            calls |-> r.calls]
             ELSE LET provider == CreateProvider(s, inst, provider_name)
                      call == <<[name |-> provider_name, cls |-> provider.cls]>>
                  IN  IF ~provider.ok THEN Failed(error, 500, <<>>)
                      ELSE IF outs[1][provider_name].fail THEN Failed(error, 500, call)
                      ELSE [form |-> [f EXCEPT !.status = "extracted"],
                            code |-> 201,
                            ocr |-> SingleResult(Result(outs[1][provider_name], "none"),
                                                 provider.cls, provider_name, FALSE),
                            calls |-> call]

\* upload_form(file, ocr_provider); ocr_provider = "None" when not given
UploadForm(s, inst, old, file, ocr_provider) ==
    IF file.ext \notin AllowedExtensions
    THEN Failed(old, 400, <<>>)              \* save_uploaded_file: ValueError
    ELSE LET provider_name == IF ocr_provider = "None" THEN "tesseract"
                              ELSE ocr_provider
             f == [exists |-> TRUE, ext |-> file.ext, pages |-> Len(file.outs),
                   ocr_provider |-> IF provider_name # "best" THEN provider_name
                                    ELSE "multi",
                   status |-> "extracting"]
         IN  UploadExtract(s, inst, f, file, provider_name)

\* upload_form_pages(files, ocr_provider): file stands for the files, its outs
\* for the pages of all of them in order
UploadFormPages(s, inst, old, file, ocr_provider) ==
    IF file.outs = <<>> \/ file.ext \notin AllowedExtensions \/ ~file.loadable
    THEN Failed(old, 400, <<>>)   \* no files; save or load raised ValueError
    ELSE LET provider_name == IF ocr_provider = "None" THEN "tesseract"
                              ELSE ocr_provider
             \* file_path is the first file's path: one image
             f == [exists |-> TRUE, ext |-> file.ext, pages |-> 1,
                   ocr_provider |-> IF provider_name # "best" THEN provider_name
                                    ELSE "multi",
                   status |-> "extracting"]
             outs == OutsOf(file)
         IN  IF provider_name # "best" /\ ~CreateProvider(s, inst, provider_name).ok
             THEN Failed([f EXCEPT !.status = "error"], 500, <<>>)
             ELSE LET acc == PageLoop(FALSE, s, inst, provider_name,
                                      GetAvailableProviders(s, inst), outs, 1,
                                      NewAcc(f.ocr_provider))
                      f1 == [f EXCEPT !.ocr_provider = acc.selected]
                  IN  IF acc.raised
                      THEN Failed([f1 EXCEPT !.status = "error"], 500, acc.calls)
                      ELSE [form |-> [f1 EXCEPT !.status = "extracted"],
                            code |-> 201,
                            ocr |-> Aggregate(acc, outs, f1.ocr_provider),
                            calls |-> acc.calls]

\* "multi" is stored for a form uploaded in best mode
ReExtractProviderName(s, f, ocr_provider) ==
    LET chosen == IF ocr_provider # "None" THEN ocr_provider ELSE f.ocr_provider
    IN  IF chosen = "multi" THEN "best" ELSE chosen

\* re_extract_form(form_id, ocr_provider) on the stored row f; file is the
\* stored file as it is now
ReExtractForm(s, inst, f, file, ocr_provider) ==
    IF ~f.exists THEN Failed(f, 404, <<>>)
    ELSE
    LET provider_name == ReExtractProviderName(s, f, ocr_provider)
        error == [f EXCEPT !.status = "error"]
        snapshot == GetAvailableProviders(s, inst)
        outs == OutsOf(file)
    IN  IF provider_name # "best" /\ ~CreateProvider(s, inst, provider_name).ok
        THEN Failed(error, 500, <<>>)
        ELSE IF ~file.loadable THEN Failed(error, 500, <<>>)
        ELSE IF f.ext = "pdf"
        THEN LET acc == PageLoop(TRUE, s, inst, provider_name, snapshot, outs, 1,
                                 NewAcc(provider_name))
             IN  IF acc.raised THEN Failed(error, 500, acc.calls)
                 ELSE [form |-> [f EXCEPT !.status = "extracted",
                                   !.ocr_provider = acc.selected],
                       code |-> 200,
                       ocr |-> Aggregate(acc, outs, acc.selected),
                       calls |-> acc.calls]
        ELSE IF provider_name = "best"
        THEN LET r == ExtractWithBestProvider(s, inst, snapshot, outs[1])
             IN  IF r.raised # "none" THEN Failed(error, 500, r.calls)
                 ELSE [form |-> [f EXCEPT !.status = "extracted",
                                   !.ocr_provider = r.best.provider_used],
                       code |-> 200,
                       ocr |-> SingleResult(r.best, ClassOf(r.best.provider_used),
                                            r.best.provider_used, TRUE),
                       calls |-> r.calls]
        ELSE LET call == <<[name |-> provider_name, cls |-> ClassOf(provider_name)]>>
             IN  IF outs[1][provider_name].fail THEN Failed(error, 500, call)
                 ELSE [form |-> [f EXCEPT !.status = "extracted",
                                   !.ocr_provider = provider_name],
                       code |-> 200,
                       ocr |-> SingleResult(Result(outs[1][provider_name], "none"),
                                            ClassOf(provider_name), provider_name, TRUE),
                       calls |-> call]

----------------------------------------------------------------------------
(* The provider selector as a state machine *)

\* the row of the forms table the routes work on: the columns they read back
NoForm == [exists |-> FALSE, ext |-> "none", pages |-> 0,
           ocr_provider |-> "none", status |-> "none"]

NoMulti == [constructed |-> FALSE, available_providers |-> <<>>]

\* what an operation of the selector returned or raised
SelRet(raised, best, results, best_provider, all_results, names) ==
    [raised |-> raised, best |-> best, results |-> results,
     best_provider |-> best_provider, all_results |-> all_results,
     names |-> names]

NoRet == SelRet("none", NoResult, <<>>, "none", <<>>, <<>>)

NoArg == [providers |-> <<>>, out |-> <<>>]

\* lists of at most n names
ListsUpTo(S, n) == UNION { [1..k -> S] : k \in 0..n }

InitSel ==
    /\ settings \in ValidSettings
    /\ installed \in SUBSET ProviderClasses
    /\ multi = NoMulti
    /\ op = "idle"
    /\ arg = NoArg
    /\ ret = NoRet
    /\ calls = <<>>
    /\ form = NoForm

\* the settings object is reassigned, or a backend's engine or credentials
\* appear or disappear, between two operations
SetConfig ==
    /\ op = "idle"
    /\ settings' \in ValidSettings
    /\ installed' \in SUBSET ProviderClasses
    /\ <<settings', installed'>> # <<settings, installed>>
    /\ UNCHANGED <<multi, op, arg, ret, calls, form>>

\* MultiProviderOCR.__init__
NewMultiProviderOCR ==
    /\ op = "idle"
    /\ multi' = [constructed |-> TRUE,
                 available_providers |-> GetAvailableProviders(settings, installed)]
    /\ UNCHANGED <<settings, installed, op, arg, ret, calls, form>>

\* OCRFactory.get_available_providers, called on its own
ListAvailable ==
    /\ op = "idle"
    /\ op' = "get_available_providers"
    /\ arg' = NoArg
    /\ ret' = SelRet("none", NoResult, <<>>, "none", <<>>,
                     GetAvailableProviders(settings, installed))
    /\ calls' = <<>>
    /\ UNCHANGED <<settings, installed, multi, form>>

\* extract_with_best_provider(image, providers=None)
SelectBestDefault(out) ==
    /\ op = "idle"
    /\ multi.constructed
    /\ LET r == ExtractWithBestProvider(settings, installed,
                                        multi.available_providers, out)
       IN  /\ ret' = SelRet(r.raised, r.best, r.results, "none", <<>>, <<>>)
           /\ calls' = r.calls
    /\ op' = "select_best"
    /\ arg' = [providers |-> multi.available_providers, out |-> out]
    /\ UNCHANGED <<settings, installed, multi, form>>

\* extract_with_best_provider(image, providers=[...])
SelectBestListed(providers, out) ==
    /\ op = "idle"
    /\ multi.constructed
    /\ LET r == ExtractWithBestProvider(settings, installed, providers, out)
       IN  /\ ret' = SelRet(r.raised, r.best, r.results, "none", <<>>, <<>>)
           /\ calls' = r.calls
    /\ op' = "select_best"
    /\ arg' = [providers |-> providers, out |-> out]
    /\ UNCHANGED <<settings, installed, multi, form>>

\* extract_with_all_providers(image)
RunAll(out) ==
    /\ op = "idle"
    /\ multi.constructed
    /\ LET r == ExtractWithAllProviders(settings, installed,
                                        multi.available_providers, out)
       IN  /\ ret' = SelRet(r.raised, r.best_result, <<>>, r.best_provider,
                            r.all_results, <<>>)
           /\ calls' = r.calls
    /\ op' = "run_all"
    /\ arg' = [providers |-> multi.available_providers, out |-> out]
    /\ UNCHANGED <<settings, installed, multi, form>>

\* get_ocr_provider(provider_name), provider_name = "None" for the default
GetOcrProvider(provider_name) ==
    /\ op = "idle"
    /\ LET name == IF provider_name = "None" THEN DefaultName(settings)
                   ELSE provider_name
           provider == CreateProvider(settings, installed, name)
       IN  /\ arg' = [providers |-> <<name>>, out |-> <<>>]
           /\ ret' = SelRet(IF provider.ok THEN "none" ELSE "ValueError",
                            NoResult, <<>>, "none", <<>>,
                            IF provider.ok THEN <<provider.cls>> ELSE <<>>)
    /\ op' = "create_provider"
    /\ calls' = <<>>
    /\ UNCHANGED <<settings, installed, multi, form>>

\* the caller has taken the result of the operation
ReturnSel ==
    /\ op # "idle"
    /\ op' = "idle"
    /\ arg' = NoArg
    /\ ret' = NoRet
    /\ calls' = <<>>
    /\ UNCHANGED <<settings, installed, multi, form>>

NextSel ==
    \/ SetConfig
    \/ NewMultiProviderOCR
    \/ ListAvailable
    \/ \E out \in OutcomeMaps : SelectBestDefault(out)
    \/ \E providers \in ListsUpTo(AllNames, MaxProviders), out \in OutcomeMaps :
          SelectBestListed(providers, out)
    \/ \E out \in OutcomeMaps : RunAll(out)
    \/ \E provider_name \in AllNames \cup {"None"} : GetOcrProvider(provider_name)
    \/ ReturnSel

SpecSel == InitSel /\ [][NextSel]_vars

----------------------------------------------------------------------------
(* The routes as a state machine *)

\* what a backend may do with a page: raise; a confident short text; a less
\* confident longer text; no text at all, with a confidence
PageOutcomes ==
    { Raises,
      Outcome(FALSE, 90, Text(0, 10, 0)),
      Outcome(FALSE, 70, Text(0, 20, 0)),
      Outcome(FALSE, 60, EmptyText) }

\* the backend that is down for a whole request, if any
Downs == {"none", "tesseract"}

\* values of the ocr_provider query parameter; "None" when it is not given
ProviderArgs == {"None", "google", "best", "bogus"}

\* a file of the given extension and page count that cannot be loaded
Unloadable(ext, n) ==
    [ext |-> ext, loadable |-> FALSE, outs |-> [p \in 1..n |-> Raises],
     down |-> "none"]

\* the files of n pages with the given extension
FilesOf(ext, n) ==
    { Unloadable(ext, n) } \cup
    { [ext |-> ext, loadable |-> TRUE, outs |-> o, down |-> d] :
        o \in [1..n -> PageOutcomes], d \in Downs }

\* uploads: a rejected extension, an image, a PDF of 1..MaxPages pages
UploadFiles ==
    { Unloadable("exe", 1) } \cup FilesOf("png", 1)
      \cup UNION { FilesOf("pdf", n) : n \in 1..MaxPages }

\* the uploads of upload_form_pages: no file at all, a rejected extension,
\* 1..MaxPages images (the pages of a PDF among the files are put into the
\* same list of pages)
PagesFiles ==
    { Unloadable("png", 0), Unloadable("exe", 1) }
      \cup UNION { FilesOf("png", n) : n \in 1..MaxPages }

\* the stored file of a form as re_extract_form may find it
StoredFiles ==
    FilesOf("png", 1) \cup UNION { FilesOf("pdf", n) : n \in 1..MaxPages }

\* a backend that is down changes a request only in best mode: with a single
\* backend it is the same as every page raising, or as no backend down
Requests(files, best_args) ==
    { r \in files \X ProviderArgs : r[1].down = "none" \/ r[2] \in best_args }

ReqRet(code, ocr) == [code |-> code, ocr |-> ocr]

NoReqRet == ReqRet(0, NoOcrResult)

NoReqArg == [file |-> Unloadable("none", 0), ocr_provider |-> "None",
             provider_name |-> "none"]

Init ==
    /\ settings \in ValidSettings
    /\ installed \in SUBSET ProviderClasses
    /\ multi = NoMulti
    /\ op = "idle"
    /\ arg = NoReqArg
    /\ ret = NoReqRet
    /\ calls = <<>>
    /\ form = NoForm

Respond(name, r, file, ocr_provider, provider_name) ==
    /\ op' = name
    /\ arg' = [file |-> file, ocr_provider |-> ocr_provider,
               provider_name |-> provider_name]
    /\ ret' = ReqRet(r.code, r.ocr)
    /\ calls' = r.calls
    /\ form' = r.form
    /\ UNCHANGED <<settings, installed, multi>>

\* The machine follows one row of the forms table: an upload creates it when
\* none is followed, delete_form removes it.

\* POST /upload
DoUploadForm(file, ocr_provider) ==
    /\ op = "idle"
    /\ ~form.exists
    /\ Respond("upload_form",
               UploadForm(settings, installed, form, file, ocr_provider),
               file, ocr_provider,
               IF ocr_provider = "None" THEN "tesseract" ELSE ocr_provider)

\* POST /pages
DoUploadFormPages(file, ocr_provider) ==
    /\ op = "idle"
    /\ ~form.exists
    /\ Respond("upload_form_pages",
               UploadFormPages(settings, installed, form, file, ocr_provider),
               file, ocr_provider,
               IF ocr_provider = "None" THEN "tesseract" ELSE ocr_provider)

\* POST /{form_id}/extract
DoReExtractForm(file, ocr_provider) ==
    /\ op = "idle"
    /\ form.exists => file.ext = form.ext /\ Len(file.outs) = form.pages
    /\ ~form.exists => file = Unloadable("png", 1) /\ ocr_provider = "None"
    /\ Respond("re_extract_form",
               ReExtractForm(settings, installed, form, file, ocr_provider),
               file, ocr_provider,
               ReExtractProviderName(settings, form, ocr_provider))

\* DELETE /{form_id}
DoDeleteForm ==
    /\ op = "idle"
    /\ op' = "delete_form"
    /\ arg' = NoReqArg
    /\ ret' = ReqRet(IF form.exists THEN 204 ELSE 404, NoOcrResult)
    /\ calls' = <<>>
    /\ form' = NoForm
    /\ UNCHANGED <<settings, installed, multi>>

\* the client has the response
Return ==
    /\ op # "idle"
    /\ op' = "idle"
    /\ arg' = NoReqArg
    /\ ret' = NoReqRet
    /\ calls' = <<>>
    /\ UNCHANGED <<settings, installed, multi, form>>

Next ==
    \/ SetConfig
    \/ \E r \in Requests(UploadFiles, {"best"}) : DoUploadForm(r[1], r[2])
    \/ \E r \in Requests(PagesFiles, {"best"}) : DoUploadFormPages(r[1], r[2])
    \/ \E r \in Requests(StoredFiles, {"best", "None"}) : DoReExtractForm(r[1], r[2])
    \/ DoDeleteForm
    \/ Return

Spec == Init /\ [][Next]_vars

----------------------------------------------------------------------------
(* Properties of the provider selector *)

\* the flag of the settings that enables a name
EnabledName(n) ==
    \/ n = "tesseract" /\ settings.OCR_ENABLE_TESSERACT
    \/ n \in {"google-vision", "google"} /\ settings.OCR_ENABLE_GOOGLE_VISION

\* a backend that can be created: enabled, known and available
Usable(n) == EnabledName(n) /\ ClassOf(n) \in installed

\* the score of the specification, times 1000:
\* confidence x (1 + len(trimmed raw_text)/1000)
StatedScore(r) == r.confidence * (1000 + r.raw_text.body)

\* the listed backends that can be created and do not raise on the image
Successful(providers, out) ==
    SelectSeq(providers, LAMBDA n : Usable(n) /\ ~out[n].fail)

\* C1: select_best calls extract_text on every listed backend that can be
\* created, in list order, whatever the other backends do; its successful
\* results are exactly those of the backends that neither failed at creation
\* nor raised; it raises exactly when there is none, and otherwise returns
\* one of the successful results.
SelectBestTriesEveryBackend ==
    op = "select_best" =>
        LET ok == Successful(arg.providers, arg.out)
        IN  /\ arg.providers # <<>> =>
                  [i \in DOMAIN calls |-> calls[i].name]
                      = SelectSeq(arg.providers, Usable)
            /\ ret.results = [i \in DOMAIN ok |-> Result(arg.out[ok[i]], ok[i])]
            /\ (ret.raised # "none") <=> (ok = <<>>)
            /\ ret.raised = "none" => ret.best \in Range(ret.results)

\* a call in which one listed backend failed at creation, another raised in
\* extract_text, and a backend listed after both produced the returned result
SelectBestSurvivesFailures ==
    /\ op = "select_best"
    /\ ret.raised = "none"
    /\ \E i, j, k \in DOMAIN arg.providers :
          /\ i < k /\ j < k
          /\ ~Usable(arg.providers[i])
          /\ Usable(arg.providers[j]) /\ arg.out[arg.providers[j]].fail
          /\ ret.best.provider_used = arg.providers[k]

\* C2: the result select_best returns has a score greater than or equal to
\* the score of every successful result of the call; with a result of
\* confidence 70 and 2000 characters and one of confidence 90 and 10
\* characters among them, a result of confidence 90 and 10 characters is not
\* returned.
SelectBestMaximizesScore ==
    (op = "select_best" /\ ret.raised = "none") =>
        /\ \A i \in DOMAIN ret.results :
              StatedScore(ret.best) >= StatedScore(ret.results[i])
        /\ (\E i \in DOMAIN ret.results :
               /\ ret.results[i].confidence = 70
               /\ ret.results[i].raw_text = Text(0, 2000, 0))
           => ~(ret.best.confidence = 90 /\ ret.best.raw_text = Text(0, 10, 0))

\* a call whose successful results are a 90-confidence 10-character one and
\* a 70-confidence 2000-character one, the latter returned
LongTextBeatsConfidence ==
    /\ op = "select_best"
    /\ ret.raised = "none"
    /\ \E i, j \in DOMAIN ret.results :
          /\ ret.results[i].confidence = 90
          /\ ret.results[i].raw_text = Text(0, 10, 0)
          /\ ret.results[j].confidence = 70
          /\ ret.results[j].raw_text = Text(0, 2000, 0)
    /\ ret.best.confidence = 70

\* C3: run_all stores every successful result under the name of the backend
\* that produced it, and best_provider / best_result is the entry of the map
\* with the highest score.
RunAllKeysAreProducers ==
    (op = "run_all" /\ ret.raised = "none") =>
        /\ \A k \in DOMAIN ret.all_results :
              ret.all_results[k].provider_used = k
        /\ ret.best_provider \in DOMAIN ret.all_results
        /\ ret.best = ret.all_results[ret.best_provider]
        /\ \A k \in DOMAIN ret.all_results :
              StatedScore(ret.best) >= StatedScore(ret.all_results[k])

\* C10: every extract_text call is made on a backend that is enabled, known
\* and available; create_provider raises ValueError for any other name, and
\* get_available_providers lists only enabled backends that are available.
OnlyUsableBackendsRun ==
    /\ \A i \in DOMAIN calls : Usable(calls[i].name)
    /\ op = "create_provider" =>
          ((ret.raised = "ValueError") <=> ~Usable(arg.providers[1]))
    /\ op = "get_available_providers" =>
          \A i \in DOMAIN ret.names : Usable(ret.names[i])

\* a call that skipped a listed backend that is enabled but not available
\* and ran another one
UnavailableBackendSkipped ==
    /\ op = "select_best"
    /\ calls # <<>>
    /\ \E i \in DOMAIN arg.providers :
          /\ EnabledName(arg.providers[i])
          /\ ~Usable(arg.providers[i])

----------------------------------------------------------------------------
(* Properties of the routes *)

RouteOps == {"upload_form", "upload_form_pages", "re_extract_form"}

\* the request answered with an ocr_result built by the page loop
Aggregated == op \in RouteOps /\ ret.ocr.aggregated

\* the request went through the page loop: a PDF, or the pages route
MultiPageJob ==
    /\ op \in RouteOps
    /\ arg.file.loadable
    /\ arg.file.ext = "pdf" \/ op = "upload_form_pages"

\* the backends the request may use: the one asked for, or all in best mode
RequestedBackends ==
    IF arg.provider_name = "best" THEN Range(RegisteredNames)
    ELSE {arg.provider_name} \cap Range(RegisteredNames)

\* page p's backend call did not raise: a backend of the request that can be
\* created returns a result for the page
PageSucceeds(p) ==
    /\ arg.file.loadable
    /\ \E n \in RequestedBackends :
          Usable(n) /\ ~OutFor(arg.file.outs[p], arg.file.down)[n].fail

\* the 1-based positions of the pages whose call did not raise, ascending
SurvivingPages ==
    SelectSeq([p \in DOMAIN arg.file.outs |-> p], PageSucceeds)

PagesOf(page_results) == [i \in DOMAIN page_results |-> page_results[i].page]

\* C4: every aggregated extraction has pages_processed equal to the number of
\* entries of page_results.
PagesProcessedCountsResults ==
    Aggregated => ret.ocr.pages_processed = Len(ret.ocr.page_results)

\* C5: the page numbers of page_results are exactly the original 1-based
\* positions of the pages whose backend call did not raise, in ascending
\* order: a page that raised has no entry and no later page is renumbered.
PageResultsKeepOriginalNumbers ==
    Aggregated =>
        /\ PagesOf(ret.ocr.page_results) = SurvivingPages
        /\ \A i, j \in DOMAIN ret.ocr.page_results :
              i < j => ret.ocr.page_results[i].page < ret.ocr.page_results[j].page

\* three pages, the second one raising: the entries are pages 1 and 3
MiddlePageDropped ==
    /\ Aggregated
    /\ op \in {"upload_form", "upload_form_pages"}
    /\ Len(arg.file.outs) = 3
    /\ ~PageSucceeds(2)
    /\ PagesOf(ret.ocr.page_results) = <<1, 3>>

\* the confidences of the pages whose call did not raise
SurvivingConfidences ==
    [i \in DOMAIN ret.ocr.page_results |-> ret.ocr.page_results[i].confidence]

\* C6: the aggregated confidence is the mean, rounded to two places, of the
\* confidences of the pages whose backend call did not raise, and 0.0 when
\* there is no such page.
ConfidenceIsMeanOfSurvivors ==
    Aggregated =>
        ret.ocr.confidence = RoundedMean(SumSeq(SurvivingConfidences),
                                         Len(SurvivingConfidences))

\* C7 as stated: the aggregated raw_text has one marker and text per entry of
\* page_results, in the same order, with the entry's page number and text.
MarkerForEverySurvivingPage ==
    Aggregated =>
        ret.ocr.raw_text = [i \in DOMAIN ret.ocr.page_results |->
                               [page |-> ret.ocr.page_results[i].page,
                                text |-> ret.ocr.page_results[i].raw_text]]

\* the entries of page_results that carry a text
EntriesWithText ==
    SelectSeq(ret.ocr.page_results, LAMBDA e : Truthy(e.raw_text))

\* C7: the aggregated raw_text is, in ascending page order, the texts of the
\* surviving pages that returned a non-empty text, each preceded by the
\* marker with the page's original 1-based number; a surviving page without
\* text adds neither marker nor text, and no marker carries the number of a
\* page that is not in page_results.
MarkerForEveryPageWithText ==
    Aggregated =>
        /\ ret.ocr.raw_text = [i \in DOMAIN EntriesWithText |->
                                  [page |-> EntriesWithText[i].page,
                                   text |-> EntriesWithText[i].raw_text]]
        /\ \A i \in DOMAIN ret.ocr.raw_text :
              /\ ret.ocr.raw_text[i].page \in Range(SurvivingPages)
              /\ ret.ocr.raw_text[i].text =
                    ret.ocr.page_results[CHOOSE k \in DOMAIN ret.ocr.page_results :
                        ret.ocr.page_results[k].page = ret.ocr.raw_text[i].page].raw_text
        /\ \A i, j \in DOMAIN ret.ocr.raw_text :
              i < j => ret.ocr.raw_text[i].page < ret.ocr.raw_text[j].page

\* three pages: the first raised, the second returned no text, the third
\* returned a text: the only marker is the one of page 3
OnlyThirdPageMarked ==
    /\ Aggregated
    /\ Len(arg.file.outs) = 3
    /\ PagesOf(ret.ocr.page_results) = <<2, 3>>
    /\ ~Truthy(ret.ocr.page_results[1].raw_text)
    /\ Len(ret.ocr.raw_text) = 1
    /\ ret.ocr.raw_text[1].page = 3

\* C8: when at least one page of a multi-page job is extracted, the request
\* completes with status EXTRACTED and the surviving pages in page_results;
\* a request ends with status ERROR only if no page and no backend produced
\* a result.
PartialFailuresAbsorbed ==
    /\ (MultiPageJob /\ form.exists /\ \E p \in DOMAIN arg.file.outs : PageSucceeds(p))
          => /\ form.status = "extracted"
             /\ ret.code \in {200, 201}
             /\ ret.ocr.aggregated
             /\ PagesOf(ret.ocr.page_results) = SurvivingPages
    /\ (op \in RouteOps /\ form.status = "error")
          => \A p \in DOMAIN arg.file.outs : ~PageSucceeds(p)

\* a best-mode job of three pages with one backend down for the whole job and
\* a page on which every backend raised: the request ends EXTRACTED
JobSurvivesFailedPage ==
    /\ MultiPageJob
    /\ arg.provider_name = "best"
    /\ arg.file.down = "tesseract"
    /\ Usable("tesseract")
    /\ Len(arg.file.outs) = 3
    /\ \E p \in DOMAIN arg.file.outs : ~PageSucceeds(p)
    /\ form.status = "extracted"
    /\ Len(ret.ocr.page_results) = 2

\* no backend the request may use can be created
NotConfigured == \A n \in RequestedBackends : ~Usable(n)

\* C9: a request whose backend is not configured or available, or whose
\* document cannot be loaded, fails, and no extract_text call is made.
ConfigAndLoadFailuresFailEarly ==
    (op \in RouteOps /\ (NotConfigured \/ ~arg.file.loadable))
        => /\ ret.code >= 400
           /\ calls = <<>>

----------------------------------------------------------------------------
(* backend/utils/form_parser.py                                            *)
(*                                                                         *)
(* A form text is a sequence of symbols: the characters "0".."9", " ",     *)
(* "nl" (a line break), ":", "-", "+", ".", "(", ")", "#" (a character     *)
(* that OCR produced and no pattern knows), and one symbol per label word  *)
(* of a field ("phone", "aadhar", "pincode", "tenth percentage"), which     *)
(* stands for any of the alternatives the field's patterns accept.  The    *)
(* fields modelled are phone_number, aadhar_number, pincode and            *)
(* tenth_percentage: the phone class, the two digit-count fields and the   *)
(* percentage class, with all their patterns.                              *)

Digits == {"0", "1", "2", "3", "4", "5", "6", "7", "8", "9"}

Whitespace == {" ", "nl"}

Labels == {"phone", "aadhar", "pincode", "tenth percentage"}

\* the symbol at position p, "eof" outside the text
At(t, p) == IF p \in 1..Len(t) THEN t[p] ELSE "eof"

\* the number of consecutive symbols of class C from position p on
RECURSIVE RunLen(_, _, _)
RunLen(t, p, C) == IF At(t, p) \in C THEN 1 + RunLen(t, p + 1, C) ELSE 0

Min(a, b) == IF a <= b THEN a ELSE b

\* t[from .. to - 1]
Slice(t, from, to) == SubSeq(t, from, to - 1)

\* re.sub(r'\s+', ' ', text)
RECURSIVE CollapseSpaces(_)
CollapseSpaces(t) ==
    IF t = <<>> THEN <<>>
    ELSE IF Head(t) \in Whitespace
         THEN <<" ">> \o CollapseSpaces(SubSeq(t, 1 + RunLen(t, 1, Whitespace), Len(t)))
         ELSE <<Head(t)>> \o CollapseSpaces(Tail(t))

\* str.strip()
StripText(t) ==
    LET lead == RunLen(t, 1, Whitespace)
        keep == { i \in 1..Len(t) : t[i] \notin Whitespace }
    IN  IF keep = {} THEN <<>>
        ELSE SubSeq(t, lead + 1, CHOOSE i \in keep : \A j \in keep : j <= i)

\* re.sub of every symbol outside class C by ''
KeepOnly(t, C) == SelectSeq(t, LAMBDA c : c \in C)

\* what re.search found: nothing, or a match with its group 0, its group 1
\* and lastindex (0 for None: no group took part in the match)
NoMatch == [found |-> FALSE, lastindex |-> 0, group0 |-> <<>>, group1 |-> <<>>]

Match(lastindex, group0, group1) ==
    [found |-> TRUE, lastindex |-> lastindex, group0 |-> group0, group1 |-> group1]

\* (?:label words)[:\s]+ at position i: the position after it, 0 if it does
\* not match there
AfterLabel(t, i, label) ==
    IF At(t, i) = label /\ RunLen(t, i + 1, {":", " "}) >= 1
    THEN i + 1 + RunLen(t, i + 1, {":", " "})
    ELSE 0

\* the least element of a non-empty set of positions
Least(S) == CHOOSE i \in S : \A j \in S : i <= j

\* \d{4}[\s\-]?\d{4}[\s\-]?\d{4} at position i: the position after the match,
\* 0 if it does not match there
AadharEnd(t, i) ==
    LET p1 == i + 4
        p2 == p1 + (IF At(t, p1) \in {" ", "-"} THEN 1 ELSE 0)
        p3 == p2 + 4
        p4 == p3 + (IF At(t, p3) \in {" ", "-"} THEN 1 ELSE 0)
    IN  IF /\ RunLen(t, i, Digits) >= 4
           /\ RunLen(t, p2, Digits) >= 4
           /\ RunLen(t, p4, Digits) >= 4
        THEN p4 + 4
        ELSE 0

\* \(?\d{3,4}\)?[-.\s]?\d{3}[-.\s]?\d{4} at position p with \d{3,4} taking a
\* digits: the position after the match, 0 if it does not match
PhoneTailEnd(t, p, a) ==
    LET q1 == p + (IF At(t, p) = "(" THEN 1 ELSE 0)
        q2 == q1 + a
        q3 == q2 + (IF At(t, q2) = ")" THEN 1 ELSE 0)
        q4 == q3 + (IF At(t, q3) \in {"-", ".", " "} THEN 1 ELSE 0)
        q5 == q4 + 3
        q6 == q5 + (IF At(t, q5) \in {"-", ".", " "} THEN 1 ELSE 0)
    IN  IF /\ RunLen(t, q1, Digits) >= a
           /\ RunLen(t, q4, Digits) >= 3
           /\ RunLen(t, q6, Digits) >= 4
        THEN q6 + 4
        ELSE 0

\* (\+?\d{1,3}[-.\s]?) at position i with \d{1,3} taking k digits: the
\* position after the group, 0 if it does not match; k = 0 is the group
\* left out
PhonePrefixEnd(t, i, k) ==
    LET g1 == i + (IF At(t, i) = "+" THEN 1 ELSE 0)
        g2 == g1 + k
    IN  IF k = 0 THEN i
        ELSE IF RunLen(t, g1, Digits) >= k
        THEN g2 + (IF At(t, g2) \in {"-", ".", " "} THEN 1 ELSE 0)
        ELSE 0

\* the order in which the regex engine tries the group and \d{3,4}: the
\* group with 3, 2, 1 digits, then without the group; 4 digits before 3
PhoneTries ==
    << <<3, 4>>, <<3, 3>>, <<2, 4>>, <<2, 3>>, <<1, 4>>, <<1, 3>>, <<0, 4>>, <<0, 3>> >>

\* the position after the match of one try at position i, 0 if it fails
PhoneTryEnd(t, i, try) ==
    IF PhonePrefixEnd(t, i, try[1]) = 0 THEN 0
    ELSE PhoneTailEnd(t, PhonePrefixEnd(t, i, try[1]), try[2])

\* FIELD_PATTERNS: the fields in the order of the dictionary, and the number
\* of patterns of each
FieldNames == <<"aadhar_number", "pincode", "phone_number", "tenth_percentage">>

PatternCount(field_name) ==
    CASE field_name = "aadhar_number" -> 2
      [] field_name = "pincode" -> 2
      [] field_name = "phone_number" -> 3
      [] field_name = "tenth_percentage" -> 1

\* the label word of the field's labelled patterns
LabelOf(field_name) ==
    CASE field_name = "aadhar_number" -> "aadhar"
      [] field_name = "pincode" -> "pincode"
      [] field_name = "phone_number" -> "phone"
      [] field_name = "tenth_percentage" -> "tenth percentage"

PhoneClass == Digits \cup {"+", " ", "-", "(", ")"}

\* the group of a labelled pattern at position j, just after the label and
\* its separators: the position after the group, 0 if it does not match
GroupEnd(field_name, k, t, j) ==
    CASE field_name = "aadhar_number" -> AadharEnd(t, j)
      [] field_name = "pincode" ->
            IF RunLen(t, j, Digits) >= 6 THEN j + 6 ELSE 0
      [] field_name = "phone_number" /\ k = 1 ->
            IF RunLen(t, j, PhoneClass) >= 10
            THEN j + Min(RunLen(t, j, PhoneClass), 15) ELSE 0
      [] field_name = "phone_number" /\ k = 2 ->
            IF RunLen(t, j, Digits) >= 10
            THEN j + Min(RunLen(t, j, Digits), 15) ELSE 0
      [] field_name = "tenth_percentage" ->
            IF RunLen(t, j, Digits \cup {"."}) >= 1
            THEN j + RunLen(t, j, Digits \cup {"."}) ELSE 0

\* a labelled pattern at position i
LabelledAt(field_name, k, t, i) ==
    LET j == AfterLabel(t, i, LabelOf(field_name))
    IN  IF j = 0 THEN NoMatch
        ELSE IF GroupEnd(field_name, k, t, j) # 0
        THEN Match(1, Slice(t, i, GroupEnd(field_name, k, t, j)),
                   Slice(t, j, GroupEnd(field_name, k, t, j)))
        ELSE IF /\ field_name = "phone_number" /\ k = 1
                /\ At(t, j - 1) = " " /\ j - 1 > i + 1
                /\ RunLen(t, j - 1, PhoneClass) >= 10
        THEN \* [:\s]+ gives its last blank back to the group
             Match(1, Slice(t, i, j + 9), Slice(t, j - 1, j + 9))
        ELSE NoMatch

\* the unlabelled digit patterns (\d{4}[\s\-]?\d{4}[\s\-]?\d{4}) and (\d{6})
\* at position i
BareAt(field_name, t, i) ==
    IF field_name = "aadhar_number"
    THEN IF AadharEnd(t, i) # 0
         THEN Match(1, Slice(t, i, AadharEnd(t, i)), Slice(t, i, AadharEnd(t, i)))
         ELSE NoMatch
    ELSE IF RunLen(t, i, Digits) >= 6
         THEN Match(1, Slice(t, i, i + 6), Slice(t, i, i + 6))
         ELSE NoMatch

\* the third phone pattern at position i, from try n on: the first try that
\* matches
RECURSIVE BarePhoneFrom(_, _, _)
BarePhoneFrom(t, i, n) ==
    IF n > Len(PhoneTries) THEN NoMatch
    ELSE IF PhoneTryEnd(t, i, PhoneTries[n]) = 0 THEN BarePhoneFrom(t, i, n + 1)
    ELSE IF PhoneTries[n][1] = 0
    THEN Match(0, Slice(t, i, PhoneTryEnd(t, i, PhoneTries[n])), <<>>)
    ELSE Match(1, Slice(t, i, PhoneTryEnd(t, i, PhoneTries[n])),
               Slice(t, i, PhonePrefixEnd(t, i, PhoneTries[n][1])))

\* the third phone pattern at position i; it can only start with '+', '('
\* or a digit
BarePhoneAt(t, i) ==
    IF At(t, i) \in Digits \cup {"+", "("} THEN BarePhoneFrom(t, i, 1) ELSE NoMatch

\* pattern k of the field at position i
PatternAt(field_name, k, t, i) ==
    IF field_name = "phone_number" /\ k = 3 THEN BarePhoneAt(t, i)
    ELSE IF field_name \in {"aadhar_number", "pincode"} /\ k = 2
         THEN BareAt(field_name, t, i)
         ELSE LabelledAt(field_name, k, t, i)

\* the leftmost match of pattern k at position i or later
RECURSIVE SearchFrom(_, _, _, _)
SearchFrom(field_name, k, t, i) ==
    IF i > Len(t) THEN NoMatch
    ELSE IF PatternAt(field_name, k, t, i).found THEN PatternAt(field_name, k, t, i)
    ELSE SearchFrom(field_name, k, t, i + 1)

\* re.search(pattern, text, ...)
Search(field_name, k, t) == SearchFrom(field_name, k, t, 1)

PhoneFields == {"phone_number"}

\* the symbols the first re.sub of _clean_value keeps: [\w\s@.,\-+()\/]
CleanKeep == Digits \cup Whitespace \cup Labels \cup {".", "-", "+", "(", ")"}

\* a cleaning without the field-specific step
CleanValueGeneral(value, field_name) ==
    StripText(CollapseSpaces(KeepOnly(StripText(value), CleanKeep)))

\* SRCCFormParser._clean_value
CleanValue(value, field_name) ==
    LET general == CollapseSpaces(KeepOnly(StripText(value), CleanKeep))
    IN  StripText(
          IF field_name \in PhoneFields
          THEN KeepOnly(general, Digits \cup {"+"})
          ELSE IF field_name \in {"aadhar_number", "pincode"}
          THEN KeepOnly(general, Digits \cup {"-"})
          ELSE IF field_name \in {"tenth_percentage"}
          THEN KeepOnly(general, Digits \cup {"."})
          ELSE general)

\* float(value) succeeds on a value of digits and '.': at most one '.' and
\* at least one digit
FloatParses(value) ==
    /\ Len(KeepOnly(value, {"."})) <= 1
    /\ Len(KeepOnly(value, Digits)) >= 1

\* 0 <= float(value) <= 100 for such a value: the digits before the '.',
\* without their leading zeros, are at most two, or are 100 with nothing but
\* zeros after the '.'
FloatInRange(value) ==
    LET whole == SubSeq(value, 1 + RunLen(value, 1, {"0"}), RunLen(value, 1, Digits))
        frac == KeepOnly(SubSeq(value, RunLen(value, 1, Digits) + 1, Len(value)), Digits)
    IN  \/ Len(whole) <= 2
        \/ whole = <<"1", "0", "0">> /\ \A i \in DOMAIN frac : frac[i] = "0"

\* a validation that accepts every non-empty value
ValidateValueLax(value, field_name) == value # <<>>

\* SRCCFormParser._validate_value
ValidateValue(value, field_name) ==
    IF value = <<>> \/ Len(value) < 2 THEN FALSE
    ELSE IF field_name \in PhoneFields
    THEN Len(KeepOnly(value, Digits)) >= 10 /\ Len(KeepOnly(value, Digits)) <= 15
    ELSE IF field_name = "aadhar_number"
    THEN Len(KeepOnly(value, Digits)) = 12
    ELSE IF field_name = "pincode"
    THEN Len(KeepOnly(value, Digits)) = 6
    ELSE IF field_name \in {"tenth_percentage"}
    THEN FloatParses(value) /\ FloatInRange(value)
    ELSE TRUE

\* the body of the try block of _extract_field for one pattern, given what
\* re.search returned: "return" with the value, "continue", or "raise"
\* (match.lastindex is None and None >= 1 is a TypeError)
MatchOutcome(match, field_name) ==
    IF ~match.found THEN [kind |-> "continue", value |-> <<>>]
    ELSE IF match.lastindex = 0 THEN [kind |-> "raise", value |-> <<>>]
    ELSE IF match.group1 = <<>> THEN [kind |-> "continue", value |-> <<>>]
    ELSE IF ValidateValue(CleanValue(match.group1, field_name), field_name)
    THEN [kind |-> "return", value |-> CleanValue(match.group1, field_name)]
    ELSE [kind |-> "continue", value |-> <<>>]

RECURSIVE ExtractFieldFrom(_, _, _)
\* a loop in which an exception of one pattern leaves _extract_field
PatternStepNoTry(text, field_name, k, outcome) ==
    IF outcome.kind = "return" THEN [raised |-> FALSE, value |-> outcome.value]
    ELSE IF outcome.kind = "raise" THEN [raised |-> TRUE, value |-> <<>>]
    ELSE ExtractFieldFrom(text, field_name, k + 1)

\* one iteration of the loop of _extract_field over the patterns
PatternStep(text, field_name, k, outcome) ==
    IF outcome.kind = "return" THEN [raised |-> FALSE, value |-> outcome.value]
    ELSE \* no valid match, or except Exception: continue
         ExtractFieldFrom(text, field_name, k + 1)

\* the loop from pattern k on; value = <<>> is None
ExtractFieldFrom(text, field_name, k) ==
    IF k > PatternCount(field_name) THEN [raised |-> FALSE, value |-> <<>>]
    ELSE PatternStep(text, field_name, k,
                     MatchOutcome(Search(field_name, k, text), field_name))

\* SRCCFormParser._extract_field
ExtractField(text, field_name) == ExtractFieldFrom(text, field_name, 1)

ParseRet(raised, parsed) == [raised |-> raised, parsed |-> parsed]

RECURSIVE ParseFrom(_, _, _)
\* one iteration of the loop of parse over FIELD_PATTERNS: the field is added
\* if a value was extracted
FieldStep(text, n, parsed, extracted) ==
    IF extracted.raised THEN ParseRet(TRUE, parsed)
    ELSE IF extracted.value # <<>>
    THEN ParseFrom(text, n + 1, parsed @@ (FieldNames[n] :> extracted.value))
    ELSE ParseFrom(text, n + 1, parsed)

\* the loop from field n on
ParseFrom(text, n, parsed) ==
    IF n > Len(FieldNames) THEN ParseRet(FALSE, parsed)
    ELSE FieldStep(text, n, parsed, ExtractField(text, FieldNames[n]))

\* SRCCFormParser.parse / parse_form_text: whether it raised, and the
\* dictionary it returned (a function from the extracted fields to values)
Parse(raw_text) == ParseFrom(CollapseSpaces(raw_text), 1, <<>>)

\* ---- the form texts handed to the parser ----

\* the longest text is MaxChunks pieces long
MaxChunks == 3

Mobile == <<"9", "8", "7", "6", "5", "4", "3", "2", "1", "0">>

\* the pieces a form text is written from: field labels, digit runs,
\* separators and a line break
Chunks ==
    { <<"phone", ":", " ">>, <<"aadhar", ":", " ">>, <<"pincode", ":", " ">>,
      <<"tenth percentage", ":", " ">>,
      Mobile, <<"1", "2", "3", "4", " ">>, <<"9">>, <<"1", "0", "0">>,
      <<"+">>, <<".">>, <<"-">>, <<"nl">> }

RECURSIVE TextsUpTo(_)
TextsUpTo(n) ==
    IF n = 0 THEN { <<>> }
    ELSE TextsUpTo(n - 1) \cup { t \o c : t \in TextsUpTo(n - 1), c \in Chunks }

FormTexts == TextsUpTo(MaxChunks)

InitParse ==
    /\ settings = [OCR_PROVIDER |-> "tesseract", OCR_ENABLE_TESSERACT |-> TRUE,
                   OCR_ENABLE_GOOGLE_VISION |-> FALSE]
    /\ installed = ProviderClasses
    /\ multi = NoMulti
    /\ op = "idle"
    /\ arg \in [raw_text : FormTexts]
    /\ ret = NoRet
    /\ calls = <<>>
    /\ form = NoForm

\* parse_form_text(raw_text)
ParseFormText ==
    /\ op = "idle"
    /\ op' = "parse_form_text"
    /\ ret' = Parse(arg.raw_text)
    /\ UNCHANGED <<settings, installed, multi, arg, calls, form>>

ReturnParse ==
    /\ op = "parse_form_text"
    /\ op' = "idle"
    /\ ret' = NoRet
    /\ UNCHANGED <<settings, installed, multi, arg, calls, form>>

NextParse ==
    \/ ParseFormText
    \/ ReturnParse

SpecParse == InitParse /\ [][NextParse]_vars

\* ---- properties of the parser ----

ParseOps == {"parse_form_text"}

\* the text the patterns are searched in
SearchedText == CollapseSpaces(arg.raw_text)

\* the value line 206 of _extract_field means to take from a match: group 1
\* if a group took part in it, the whole match otherwise
MatchedValue(match) == IF match.lastindex >= 1 THEN match.group1 ELSE match.group0

\* the patterns of the field that match the text with a value that passes the
\* field's validation once cleaned
WinningPatterns(text, field_name) ==
    { k \in 1..PatternCount(field_name) :
        /\ Search(field_name, k, text).found
        /\ MatchedValue(Search(field_name, k, text)) # <<>>
        /\ ValidateValue(CleanValue(MatchedValue(Search(field_name, k, text)), field_name),
                         field_name) }

\* C11: each field of the result is the cleaned value of the first pattern,
\* in list order, that matches the text and passes the field's validation;
\* the field is absent exactly when no pattern does
FirstValidPatternWins ==
    op \in ParseOps =>
        \A n \in DOMAIN FieldNames :
            IF WinningPatterns(SearchedText, FieldNames[n]) = {}
            THEN FieldNames[n] \notin DOMAIN ret.parsed
            ELSE /\ FieldNames[n] \in DOMAIN ret.parsed
                 /\ ret.parsed[FieldNames[n]] =
                      CleanValue(MatchedValue(Search(FieldNames[n],
                                     Least(WinningPatterns(SearchedText, FieldNames[n])),
                                     SearchedText)),
                                 FieldNames[n])

\* the field has a pattern whose try block ends in a return
SomePatternReturns(text, field_name) ==
    \E k \in 1..PatternCount(field_name) :
        MatchOutcome(Search(field_name, k, text), field_name).kind = "return"

\* the field has a pattern whose try block raises
SomePatternRaises(text, field_name) ==
    \E k \in 1..PatternCount(field_name) :
        MatchOutcome(Search(field_name, k, text), field_name).kind = "raise"

\* C12: parse_form_text never raises, and a field is extracted exactly when
\* one of its own patterns yields a valid value, whatever happened to the
\* other fields of the text
ParseNeverRaises ==
    op \in ParseOps =>
        /\ ~ret.raised
        /\ \A n \in DOMAIN FieldNames :
              FieldNames[n] \in DOMAIN ret.parsed
                  <=> SomePatternReturns(SearchedText, FieldNames[n])

\* a pattern of phone_number raised, phone_number is absent and the
\* percentage, a later field, was still extracted
LaterFieldSurvivesRaise ==
    /\ op \in ParseOps
    /\ SomePatternRaises(SearchedText, "phone_number")
    /\ ~ret.raised
    /\ "phone_number" \notin DOMAIN ret.parsed
    /\ "tenth_percentage" \in DOMAIN ret.parsed

\* the validation rule the field's values are held to
StatedValid(value, field_name) ==
    CASE field_name = "phone_number" ->
            Len(KeepOnly(value, Digits)) \in 10..15
      [] field_name = "aadhar_number" -> Len(KeepOnly(value, Digits)) = 12
      [] field_name = "pincode" -> Len(KeepOnly(value, Digits)) = 6
      [] field_name = "tenth_percentage" -> FloatParses(value) /\ FloatInRange(value)

\* C13: every entry of the returned map has a known field name as its key
\* and a non-empty, cleaned value that passes the field's validation rule
OnlyValidEntries ==
    op \in ParseOps =>
        \A key \in DOMAIN ret.parsed :
            /\ \E n \in DOMAIN FieldNames : FieldNames[n] = key
            /\ ret.parsed[key] # <<>>
            /\ CleanValue(ret.parsed[key], key) = ret.parsed[key]
            /\ StatedValid(ret.parsed[key], key)

\* the percentage pattern matched a value that failed validation and is
\* absent, while another field of the same text is present
InvalidMatchLeftOut ==
    /\ op \in ParseOps
    /\ Search("tenth_percentage", 1, SearchedText).found
    /\ "tenth_percentage" \notin DOMAIN ret.parsed
    /\ DOMAIN ret.parsed # {}

\* the positions of the text at which twelve digits, in groups of four with
\* at most one blank or hyphen between the groups, begin
AadharGroups(text) == { i \in 1..Len(text) : AadharEnd(text, i) # 0 }

\* C14: a returned aadhar_number has exactly 12 digits and no blank; it is a
\* twelve-digit group of the text without its blanks, so that groups of four
\* separated by spaces come back as the 12 digits alone; a text without such
\* a group, in particular one with fewer than 12 digits, has no aadhar_number
AadharHasTwelveDigits ==
    op \in ParseOps =>
        IF AadharGroups(SearchedText) = {}
        THEN "aadhar_number" \notin DOMAIN ret.parsed
        ELSE /\ "aadhar_number" \in DOMAIN ret.parsed
             /\ Len(KeepOnly(ret.parsed["aadhar_number"], Digits)) = 12
             /\ \E i \in AadharGroups(SearchedText) :
                   ret.parsed["aadhar_number"] =
                       KeepOnly(Slice(SearchedText, i, AadharEnd(SearchedText, i)),
                                Digits \cup {"-"})

\* a text of three groups of four digits separated by spaces, returned as
\* 12 digits
SpacedAadharJoined ==
    /\ op \in ParseOps
    /\ \E i \in AadharGroups(SearchedText) :
          /\ At(SearchedText, i + 4) = " "
          /\ At(SearchedText, i + 9) = " "
    /\ "aadhar_number" \in DOMAIN ret.parsed
    /\ Len(ret.parsed["aadhar_number"]) = 12

\* the cleaned form of the value the percentage pattern matched
MatchedPercentage ==
    CleanValue(Search("tenth_percentage", 1, SearchedText).group1, "tenth_percentage")

\* C15: a matched percentage is accepted, and returned in its cleaned form,
\* exactly when that form parses as a number from 0 to 100; otherwise the
\* field is absent
PercentageAcceptedIffInRange ==
    (op \in ParseOps /\ Search("tenth_percentage", 1, SearchedText).found) =>
        IF FloatParses(MatchedPercentage) /\ FloatInRange(MatchedPercentage)
        THEN /\ "tenth_percentage" \in DOMAIN ret.parsed
             /\ ret.parsed["tenth_percentage"] = MatchedPercentage
        ELSE "tenth_percentage" \notin DOMAIN ret.parsed

\* C16: a returned phone_number is made of digits, optionally after a single
\* '+' in first position, and has between 10 and 15 digits
PhoneIsDigitsWithLeadingPlus ==
    (op \in ParseOps /\ "phone_number" \in DOMAIN ret.parsed) =>
        /\ \A i \in 2..Len(ret.parsed["phone_number"]) :
              ret.parsed["phone_number"][i] \in Digits
        /\ ret.parsed["phone_number"][1] \in Digits \cup {"+"}
        /\ Len(KeepOnly(ret.parsed["phone_number"], Digits)) \in 10..15

----------------------------------------------------------------------------
(* backend/ocr/benchmark.py: the evaluation of one extraction against the
   labelled fields of a sample. Strings are sequences of characters. *)

\* str.lower() on the characters of the model
LowerChar(c) == IF c = "A" THEN "a" ELSE c

LowerText(t) == [i \in DOMAIN t |-> LowerChar(t[i])]

\* _normalize_text on a value that is not None; None gives ""
NormalizeText(value) == LowerText(StripText(value))

\* sub in text
Contains(sub, text) ==
    \E i \in 1..(Len(text) - Len(sub) + 1) : SubSeq(text, i, i + Len(sub) - 1) = sub

\* the length of the common run of a from i and b from j, within a[..ahi]
\* and b[..bhi]
RECURSIVE MatchLen(_, _, _, _, _, _)
MatchLen(a, b, i, j, ahi, bhi) ==
    IF i <= ahi /\ j <= bhi /\ a[i] = b[j]
    THEN 1 + MatchLen(a, b, i + 1, j + 1, ahi, bhi)
    ELSE 0

\* SequenceMatcher.find_longest_match on a[alo..ahi] and b[blo..bhi]: the
\* longest common block, the earliest in a and then the earliest in b
FindLongestMatch(a, b, alo, ahi, blo, bhi) ==
    LET size == CHOOSE n \in 0..(ahi - alo + 1) :
                    /\ n = 0 \/ \E i \in alo..ahi, j \in blo..bhi :
                                    MatchLen(a, b, i, j, ahi, bhi) = n
                    /\ \A i \in alo..ahi, j \in blo..bhi :
                          MatchLen(a, b, i, j, ahi, bhi) <= n
        i == Least({ x \in alo..ahi : \E j \in blo..bhi :
                                         MatchLen(a, b, x, j, ahi, bhi) = size })
        j == Least({ y \in blo..bhi : MatchLen(a, b, i, y, ahi, bhi) = size })
    IN  IF size = 0 THEN [i |-> alo, j |-> blo, size |-> 0]
        ELSE [i |-> i, j |-> j, size |-> size]

RECURSIVE Matches(_, _, _, _, _, _)
\* the characters matched left and right of the block m
MatchesAround(a, b, alo, ahi, blo, bhi, m) ==
    IF m.size = 0 THEN 0
    ELSE m.size + Matches(a, b, alo, m.i - 1, blo, m.j - 1)
                + Matches(a, b, m.i + m.size, ahi, m.j + m.size, bhi)

\* the sum of the sizes of SequenceMatcher.get_matching_blocks
Matches(a, b, alo, ahi, blo, bhi) ==
    IF alo > ahi \/ blo > bhi THEN 0
    ELSE MatchesAround(a, b, alo, ahi, blo, bhi,
                       FindLongestMatch(a, b, alo, ahi, blo, bhi))

\* a ratio as an exact fraction
Frac(num, den) == [num |-> num, den |-> den]

\* SequenceMatcher(None, a, b).ratio(): 2 * matches / (len(a) + len(b))
Ratio(a, b) ==
    IF Len(a) + Len(b) = 0 THEN Frac(1, 1)
    ELSE Frac(2 * Matches(a, b, 1, Len(a), 1, Len(b)), Len(a) + Len(b))

\* x <= y on fractions
FracLeq(x, y) == x.num * y.den <= y.num * x.den

\* max(x, y)
FracMax(x, y) == IF FracLeq(x, y) THEN y ELSE x

\* round(ratio, 3), in thousandths
RoundThousandths(x) == (2000 * x.num + x.den) \div (2 * x.den)

\* the raw-text credit 0.8
RawTextCredit == Frac(4, 5)

\* the threshold 0.999 of an exact match
ExactThreshold == Frac(999, 1000)

\* x + y on fractions
FracAdd(x, y) == Frac(x.num * y.den + y.num * x.den, x.den * y.den)

\* sum(ratios)
RECURSIVE FracSum(_)
FracSum(ratios) ==
    IF ratios = <<>> THEN Frac(0, 1) ELSE FracAdd(Head(ratios), FracSum(Tail(ratios)))

\* mean(ratios) of a non-empty list
FracMean(ratios) == Frac(FracSum(ratios).num, FracSum(ratios).den * Len(ratios))

\* structured_data.get(field_name), normalized: "" when the field is missing
ActualNorm(structured_data, field_name) ==
    IF field_name \in DOMAIN structured_data
    THEN NormalizeText(structured_data[field_name])
    ELSE <<>>

\* the ratio of one labelled field: the similarity of the expected and the
\* extracted value, raised to the raw-text credit if nothing was extracted
\* and the expected value stands in the raw text
FieldRatio(expected_norm, actual_norm, found_in_raw) ==
    IF actual_norm = <<>>
    THEN IF found_in_raw THEN FracMax(Frac(0, 1), RawTextCredit) ELSE Frac(0, 1)
    ELSE Ratio(expected_norm, actual_norm)

\* the entry of field_results for one labelled field
FieldResult(field, expected_norm, actual_norm, found_in_raw) ==
    [field |-> field.name,
     expected |-> field.expected,
     ratio |-> FieldRatio(expected_norm, actual_norm, found_in_raw),
     similarity |-> RoundThousandths(FieldRatio(expected_norm, actual_norm, found_in_raw)),
     exact_match |-> FracLeq(ExactThreshold,
                             FieldRatio(expected_norm, actual_norm, found_in_raw)),
     found_in_raw |-> found_in_raw]

\* the loop of _evaluate_fields over the labelled fields: a field whose
\* expected value normalizes to "" is skipped
RECURSIVE FieldResults(_, _, _)
FieldResults(expected_fields, structured_data, raw_text_norm) ==
    IF expected_fields = <<>> THEN <<>>
    ELSE IF NormalizeText(Head(expected_fields).expected) = <<>>
    THEN FieldResults(Tail(expected_fields), structured_data, raw_text_norm)
    ELSE <<FieldResult(Head(expected_fields),
                       NormalizeText(Head(expected_fields).expected),
                       ActualNorm(structured_data, Head(expected_fields).name),
                       Contains(NormalizeText(Head(expected_fields).expected),
                                raw_text_norm))>>
         \o FieldResults(Tail(expected_fields), structured_data, raw_text_norm)

\* the triple _evaluate_fields returns: (None, None, []) is labelled = FALSE
Evaluation(field_results) ==
    IF field_results = <<>>
    THEN [labelled |-> FALSE, avg_similarity |-> Frac(0, 1),
          exact_rate |-> Frac(0, 1), fields |-> <<>>]
    ELSE [labelled |-> TRUE,
          avg_similarity |-> FracMean([i \in DOMAIN field_results |-> field_results[i].ratio]),
          exact_rate |-> Frac(Len(SelectSeq(field_results, LAMBDA r : r.exact_match)),
                              Len(field_results)),
          fields |-> field_results]

\* _evaluate_fields(sample, extraction); parsed is what parse_form_text
\* returns for the raw text, used when the extraction has no structured data
\* and the sample names a form type
EvaluateFields(sample, extraction, parsed) ==
    Evaluation(FieldResults(sample.fields,
                            IF DOMAIN extraction.structured_data # {}
                            THEN extraction.structured_data
                            ELSE IF sample.form_type # "None" THEN parsed
                            ELSE <<>>,
                            LowerText(extraction.raw_text)))

\* ---- the samples and extractions handed to the evaluation ----

\* the longest expected value and the longest raw text
MaxValueLen == 2

\* the longest extracted value
MaxActualLen == 1

RECURSIVE Strings(_, _)
\* the strings of at most n characters of the alphabet
Strings(alphabet, n) ==
    IF n = 0 THEN { <<>> }
    ELSE Strings(alphabet, n - 1)
         \cup { s \o <<c>> : s \in Strings(alphabet, n - 1), c \in alphabet }

\* the one field the samples label
LabelledField == "student_name"

\* structured data: none, or the field with a value
StructuredData ==
    { <<>> } \cup { (LabelledField :> v) : v \in Strings({"a", "b"}, MaxActualLen) }

EvalSamples ==
    { [fields |-> <<[name |-> LabelledField, expected |-> e]>>, form_type |-> t] :
        e \in Strings({"a", "b", "A", " "}, MaxValueLen), t \in {"None", "srcc"} }

EvalExtractions ==
    { [structured_data |-> d, raw_text |-> r] :
        d \in StructuredData, r \in Strings({"a", "b", "A"}, MaxValueLen) }

InitEval ==
    /\ settings = [OCR_PROVIDER |-> "tesseract", OCR_ENABLE_TESSERACT |-> TRUE,
                   OCR_ENABLE_GOOGLE_VISION |-> FALSE]
    /\ installed = ProviderClasses
    /\ multi = NoMulti
    /\ op = "idle"
    /\ arg \in [sample : EvalSamples, extraction : EvalExtractions,
                parsed : {<<>>, (LabelledField :> <<"b">>)}]
    /\ ret = NoRet
    /\ calls = <<>>
    /\ form = NoForm

\* _evaluate_fields(sample, extraction)
DoEvaluateFields ==
    /\ op = "idle"
    /\ op' = "evaluate_fields"
    /\ ret' = EvaluateFields(arg.sample, arg.extraction, arg.parsed)
    /\ UNCHANGED <<settings, installed, multi, arg, calls, form>>

ReturnEval ==
    /\ op = "evaluate_fields"
    /\ op' = "idle"
    /\ ret' = NoRet
    /\ UNCHANGED <<settings, installed, multi, arg, calls, form>>

NextEval ==
    \/ DoEvaluateFields
    \/ ReturnEval

SpecEval == InitEval /\ [][NextEval]_vars

\* ---- properties of the evaluation ----

\* C19: every labelled field whose normalized expected value stands verbatim
\* in the raw text is recorded with a similarity of at least 0.8, whatever
\* the structured extractor produced for it
RawTextHitGetsCredit ==
    op = "evaluate_fields" =>
        \A i \in DOMAIN ret.fields :
            Contains(NormalizeText(ret.fields[i].expected), LowerText(arg.extraction.raw_text))
                => ret.fields[i].similarity >= 800

----------------------------------------------------------------------------
(* backend/ocr/benchmark.py: discover_samples, benchmark_provider and
   run_benchmark. The raw files of the samples are images. *)

\* the most label files a dataset holds
MaxSamples == 2

\* the stems of the label files, in the order of sorted(labels_dir.glob)
SampleIds == [i \in 1..MaxSamples |-> i]

\* what discover_samples ends with: the samples, or an exception
Discovered(raised, samples) == [raised |-> raised, samples |-> samples]

RECURSIVE DiscoverFrom(_, _, _, _)
\* a loop that leaves out a label without a raw file
DiscoverStepSkipMissing(dataset, only_ids, limit, samples) ==
    LET label == dataset.labels[Len(samples.seen) + 1]
        seen == Append(samples.seen, label.sample_id)
        found == Append(samples.found, label.sample_id)
    IN  IF only_ids # {} /\ label.sample_id \notin only_ids
        THEN DiscoverFrom(dataset, only_ids, limit, [samples EXCEPT !.seen = seen])
        ELSE IF ~label.raw_found
        THEN DiscoverFrom(dataset, only_ids, limit, [samples EXCEPT !.seen = seen])
        ELSE IF limit # 0 /\ Len(found) >= limit
        THEN Discovered("none", found)
        ELSE DiscoverFrom(dataset, only_ids, limit, [seen |-> seen, found |-> found])

\* one iteration of the loop of discover_samples over the sorted label files
DiscoverStep(dataset, only_ids, limit, samples) ==
    LET label == dataset.labels[Len(samples.seen) + 1]
        seen == Append(samples.seen, label.sample_id)
        found == Append(samples.found, label.sample_id)
    IN  IF only_ids # {} /\ label.sample_id \notin only_ids
        THEN DiscoverFrom(dataset, only_ids, limit, [samples EXCEPT !.seen = seen])
        ELSE IF ~label.raw_found
        THEN Discovered("FileNotFoundError", <<>>)
        ELSE IF limit # 0 /\ Len(found) >= limit
        THEN Discovered("none", found)
        ELSE DiscoverFrom(dataset, only_ids, limit, [seen |-> seen, found |-> found])

\* the loop after the labels in samples.seen; no sample at the end is a
\* ValueError
DiscoverFrom(dataset, only_ids, limit, samples) ==
    IF Len(samples.seen) = Len(dataset.labels)
    THEN IF samples.found = <<>> THEN Discovered("ValueError", <<>>)
         ELSE Discovered("none", samples.found)
    ELSE DiscoverStep(dataset, only_ids, limit, samples)

\* discover_samples(raw_dir, labels_dir, only_ids, limit); limit = 0 is None
DiscoverSamples(dataset, only_ids, limit) ==
    IF ~dataset.dirs_exist THEN Discovered("FileNotFoundError", <<>>)
    ELSE DiscoverFrom(dataset, only_ids, limit, [seen |-> <<>>, found |-> <<>>])

\* an extraction a backend returns for a sample's file, or its failure
BenchOutcome(f, c, t) == [fail |-> f, confidence |-> c, raw_text |-> t]

BenchRaises == BenchOutcome(TRUE, 0, <<>>)

\* the fields every label file of the dataset holds, and its form type
BenchFields == <<[name |-> LabelledField, expected |-> <<"a">>]>>

BenchSample == [fields |-> BenchFields, form_type |-> "None"]

\* what a backend may do with a sample: raise; read the expected value with
\* confidence 90; read nothing with confidence 70
BenchOutcomes ==
    { BenchRaises, BenchOutcome(FALSE, 90, <<"a">>), BenchOutcome(FALSE, 70, <<>>) }

\* one outcome per backend class and sample; Google Vision raises or reads
\* the value
BenchOutcomeMaps ==
    { out \in [ProviderClasses -> [1..MaxSamples -> BenchOutcomes]] :
        \A i \in 1..MaxSamples : out[GoogleVisionProvider][i].confidence # 70 }

\* _extract_file_with_provider on an image file: [ok, extraction, calls]
ExtractFileWithProvider(s, inst, provider_name, sample_id, out) ==
    IF ~CreateProvider(s, inst, provider_name).ok
    THEN [ok |-> FALSE, extraction |-> BenchRaises,
          calls |-> <<[kind |-> "create", name |-> provider_name, sample |-> sample_id]>>]
    ELSE [ok |-> ~out[ClassOf(provider_name)][sample_id].fail,
          extraction |-> out[ClassOf(provider_name)][sample_id],
          calls |-> <<[kind |-> "create", name |-> provider_name, sample |-> sample_id],
                      [kind |-> "extract_text", name |-> provider_name,
                       sample |-> sample_id]>>]

\* the lists benchmark_provider starts from
NewBench ==
    [raised |-> FALSE, details |-> <<>>, confidences |-> <<>>, field_scores |-> <<>>,
     exact_rates |-> <<>>, durations |-> 0, failures |-> 0, calls |-> <<>>]

\* the entry of details for a sample that was extracted and evaluated
Metrics(sample_id, extraction, evaluation) ==
    [sample_id |-> sample_id, error |-> FALSE, confidence |-> extraction.confidence,
     labelled |-> evaluation.labelled,
     avg_field_similarity |-> evaluation.avg_similarity,
     exact_match_rate |-> evaluation.exact_rate]

\* the entry of details for a sample on which the extraction raised
ErrorEntry(sample_id) ==
    [sample_id |-> sample_id, error |-> TRUE, confidence |-> 0, labelled |-> FALSE,
     avg_field_similarity |-> Frac(0, 1), exact_match_rate |-> Frac(0, 1)]

\* the try block of benchmark_provider for a sample that was extracted
BenchSuccess(acc, sample_id, r, evaluation) ==
    [acc EXCEPT
       !.durations = @ + 1,
       !.confidences = Append(@, r.extraction.confidence),
       !.field_scores = IF evaluation.labelled THEN Append(@, evaluation.avg_similarity)
                        ELSE @,
       !.exact_rates = IF evaluation.labelled THEN Append(@, evaluation.exact_rate)
                       ELSE @,
       !.details = Append(@, Metrics(sample_id, r.extraction, evaluation)),
       !.calls = @ \o r.calls]

\* a loop body without the try: the exception of a sample leaves
\* benchmark_provider
BenchStepNoTry(acc, sample_id, r) ==
    IF acc.raised THEN acc
    ELSE IF r.ok
    THEN BenchSuccess(acc, sample_id, r,
                      EvaluateFields(BenchSample,
                                     [structured_data |-> <<>>,
                                      raw_text |-> r.extraction.raw_text], <<>>))
    ELSE [acc EXCEPT !.raised = TRUE, !.calls = @ \o r.calls]

\* the body of the loop of benchmark_provider for one sample
BenchStep(acc, sample_id, r) ==
    IF r.ok
    THEN BenchSuccess(acc, sample_id, r,
                      EvaluateFields(BenchSample,
                                     [structured_data |-> <<>>,
                                      raw_text |-> r.extraction.raw_text], <<>>))
    ELSE \* except Exception
         [acc EXCEPT !.failures = @ + 1,
                     !.details = Append(@, ErrorEntry(sample_id)),
                     !.calls = @ \o r.calls]

\* the loop of benchmark_provider over the samples
RECURSIVE BenchLoop(_, _, _, _, _, _)
BenchLoop(s, inst, provider_name, samples, out, acc) ==
    IF acc.raised \/ Len(acc.details) >= Len(samples)
    THEN acc
    ELSE BenchLoop(s, inst, provider_name, samples, out,
                   BenchStep(acc, samples[Len(acc.details) + 1],
                             ExtractFileWithProvider(s, inst, provider_name,
                                                     samples[Len(acc.details) + 1], out)))

\* round(mean(values), 2) in hundredths, or None
MeanOrNone(values) ==
    IF values = <<>> THEN [none |-> TRUE, value |-> 0]
    ELSE [none |-> FALSE, value |-> RoundedMean(SumSeq(values), Len(values))]

\* round(mean(ratios), 3) in thousandths, or None
FracMeanOrNone(ratios) ==
    IF ratios = <<>> THEN [none |-> TRUE, value |-> 0]
    ELSE [none |-> FALSE, value |-> RoundThousandths(FracMean(ratios))]

\* the summary benchmark_provider builds from its lists
Summary(provider_name, samples, acc) ==
    [provider |-> provider_name,
     raised |-> acc.raised,
     samples_evaluated |-> Len(samples),
     avg_confidence |-> MeanOrNone(acc.confidences),
     avg_field_similarity |-> FracMeanOrNone(acc.field_scores),
     avg_exact_match_rate |-> FracMeanOrNone(acc.exact_rates),
     timed |-> acc.durations,
     failures |-> acc.failures,
     details |-> acc.details,
     calls |-> acc.calls]

\* benchmark_provider(provider_name, samples)
BenchmarkProvider(s, inst, provider_name, samples, out) ==
    Summary(provider_name, samples,
            BenchLoop(s, inst, provider_name, samples, out, NewBench))

\* sorted(enabled_providers)
SortedNames == <<"google", "google-vision", "tesseract">>

\* the instances get_available_providers creates to ask is_available
AvailabilityCalls(s) ==
    [i \in DOMAIN GetProviders(s) |->
        [kind |-> "is_available", name |-> GetProviders(s)[i], sample |-> 0]]

\* requested: args.providers, or every enabled provider in sorted order
\* (settings.OCR_BENCHMARK_PROVIDERS is empty)
Requested(providers, enabled_providers) ==
    IF providers # <<>> THEN providers
    ELSE SelectSeq(SortedNames, LAMBDA n : n \in enabled_providers)

BenchRet(raised, samples, providers) ==
    [raised |-> raised, samples |-> samples, providers |-> providers]

\* the report of the loop of run_benchmark over requested[n..]
RECURSIVE Report(_, _, _, _, _, _)
Report(s, inst, requested, n, samples, out) ==
    IF n > Len(requested) THEN <<>>
    ELSE <<BenchmarkProvider(s, inst, requested[n], samples, out)>>
         \o Report(s, inst, requested, n + 1, samples, out)

\* the calls of a report, in order
RECURSIVE ReportCalls(_)
ReportCalls(report) ==
    IF report = <<>> THEN <<>> ELSE Head(report).calls \o ReportCalls(Tail(report))

\* the end of run_benchmark, given the report of its loop: [ret, calls]
Reported(s, samples, report) ==
    IF \E n \in DOMAIN report : report[n].raised
    THEN [ret |-> BenchRet("Exception", <<>>, <<>>),
          calls |-> AvailabilityCalls(s) \o ReportCalls(report)]
    ELSE [ret |-> BenchRet("none", samples, report),
          calls |-> AvailabilityCalls(s) \o ReportCalls(report)]

\* run_benchmark from the check of the requested providers on
RunRequested(s, inst, requested, samples, out) ==
    IF \E n \in DOMAIN requested : requested[n] \notin Range(GetAvailableProviders(s, inst))
    THEN [ret |-> BenchRet("ValueError", <<>>, <<>>), calls |-> AvailabilityCalls(s)]
    ELSE Reported(s, samples, Report(s, inst, requested, 1, samples, out))

\* run_benchmark given what discover_samples ended with
RunDiscovered(s, inst, providers, out, discovered) ==
    IF discovered.raised # "none"
    THEN [ret |-> BenchRet(discovered.raised, <<>>, <<>>), calls |-> <<>>]
    ELSE RunRequested(s, inst,
                      Requested(providers, Range(GetAvailableProviders(s, inst))),
                      discovered.samples, out)

\* ---- the benchmark runs ----

\* a dataset: its directories exist and hold label files, each with or
\* without a raw file; or a directory is missing
Datasets ==
    { [dirs_exist |-> FALSE, labels |-> <<>>] }
    \cup { [dirs_exist |-> TRUE,
            labels |-> [i \in 1..n |-> [sample_id |-> SampleIds[i], raw_found |-> f[i]]]] :
             n \in 0..MaxSamples, f \in [1..MaxSamples -> BOOLEAN] }

\* --only and --limit: neither, the last sample only, or one sample at most
Selections ==
    { [only |-> {}, limit |-> 0], [only |-> {MaxSamples}, limit |-> 0],
      [only |-> {}, limit |-> 1] }

\* --providers: not given, one backend, two backends
BenchProviders == { <<>>, <<"tesseract">>, <<"google", "tesseract">> }

InitBench ==
    /\ settings \in ValidSettings
    /\ installed = ProviderClasses
    /\ multi = NoMulti
    /\ op = "idle"
    /\ arg \in [dataset : Datasets, selection : Selections,
                providers : BenchProviders, out : BenchOutcomeMaps]
    /\ ret = NoRet
    /\ calls = <<>>
    /\ form = NoForm

\* run_benchmark(args)
RunBenchmark ==
    /\ op = "idle"
    /\ op' = "run_benchmark"
    /\ LET run == RunDiscovered(settings, installed, arg.providers, arg.out,
                                DiscoverSamples(arg.dataset, arg.selection.only,
                                                arg.selection.limit))
       IN  /\ ret' = run.ret
           /\ calls' = run.calls
    /\ UNCHANGED <<settings, installed, multi, arg, form>>

ReturnBench ==
    /\ op = "run_benchmark"
    /\ op' = "idle"
    /\ ret' = NoRet
    /\ calls' = <<>>
    /\ UNCHANGED <<settings, installed, multi, arg, form>>

NextBench ==
    \/ RunBenchmark
    \/ ReturnBench

SpecBench == InitBench /\ [][NextBench]_vars

\* ---- properties of the benchmark ----

\* the labels --only lets through, and of those the ones within --limit
SelectedLabels ==
    LET passed == SelectSeq(arg.dataset.labels,
                            LAMBDA l : arg.selection.only = {}
                                       \/ l.sample_id \in arg.selection.only)
    IN  IF arg.selection.limit = 0 THEN passed
        ELSE SubSeq(passed, 1, Min(arg.selection.limit, Len(passed)))

\* C17: when a selected sample's label has no raw file, run_benchmark raises
\* and no backend was created, probed or invoked
MissingFileRaisesBeforeBackends ==
    (op = "run_benchmark"
       /\ \E i \in DOMAIN SelectedLabels : ~SelectedLabels[i].raw_found) =>
        /\ ret.raised = "FileNotFoundError"
        /\ calls = <<>>

\* the first sample has its file, the second has none, every backend is
\* enabled: the run raises without a call to a backend
SecondSampleMissing ==
    /\ op = "run_benchmark"
    /\ Len(SelectedLabels) = 2
    /\ SelectedLabels[1].raw_found
    /\ ~SelectedLabels[2].raw_found
    /\ settings.OCR_ENABLE_TESSERACT /\ settings.OCR_ENABLE_GOOGLE_VISION
    /\ arg.providers = <<>>
    /\ ret.raised = "FileNotFoundError"
    /\ calls = <<>>

\* the backend raises on the sample
BenchFailed(provider_name, sample_id) == arg.out[ClassOf(provider_name)][sample_id].fail

\* the samples of the run on which the backend did not raise
Succeeded(provider_name) ==
    SelectSeq(ret.samples, LAMBDA id : ~BenchFailed(provider_name, id))

\* the confidences the backend returned for those samples
SucceededConfidences(provider_name) ==
    [i \in DOMAIN Succeeded(provider_name) |->
        arg.out[ClassOf(provider_name)][Succeeded(provider_name)[i]].confidence]

\* the providers the run is asked to benchmark
RequestedProviders ==
    IF arg.providers # <<>> THEN arg.providers
    ELSE SelectSeq(SortedNames,
                   LAMBDA n : n \in Range(GetAvailableProviders(settings, installed)))

\* every selected sample has its file and every requested provider is enabled
RunnableBenchmark ==
    /\ SelectedLabels # <<>>
    /\ \A i \in DOMAIN SelectedLabels : SelectedLabels[i].raw_found
    /\ \A n \in DOMAIN RequestedProviders :
          RequestedProviders[n] \in Range(GetAvailableProviders(settings, installed))

\* the summary counts the samples on which its backend raised, has one
\* detail per sample, an error entry exactly for those samples, and averages
\* over the other samples only
SummaryOverSuccesses(summary) ==
    /\ summary.failures =
          Cardinality({ i \in DOMAIN ret.samples : BenchFailed(summary.provider, ret.samples[i]) })
    /\ Len(summary.details) = Len(ret.samples)
    /\ \A i \in DOMAIN ret.samples :
          /\ summary.details[i].sample_id = ret.samples[i]
          /\ summary.details[i].error <=> BenchFailed(summary.provider, ret.samples[i])
    /\ summary.timed = Len(Succeeded(summary.provider))
    /\ summary.avg_confidence.none <=> Succeeded(summary.provider) = <<>>
    /\ summary.avg_field_similarity.none <=> Succeeded(summary.provider) = <<>>
    /\ Succeeded(summary.provider) # <<>> =>
          summary.avg_confidence.value =
              RoundedMean(SumSeq(SucceededConfidences(summary.provider)),
                          Len(Succeeded(summary.provider)))

\* C18: a backend's failure on a sample does not end the run: every
\* requested backend is benchmarked on every sample, in order, and each
\* summary counts its failures, holds one detail per sample and averages
\* over the samples that succeeded
BenchmarkAbsorbsFailures ==
    (op = "run_benchmark" /\ RunnableBenchmark) =>
        /\ ret.raised = "none"
        /\ [n \in DOMAIN ret.providers |-> ret.providers[n].provider] = RequestedProviders
        /\ \A n \in DOMAIN ret.providers : SummaryOverSuccesses(ret.providers[n])

\* the first backend raised on one of two samples: its summary has
\* failures = 1 and an average over the other sample, and the second backend
\* was benchmarked on both samples
OneFailureOneSuccess ==
    /\ op = "run_benchmark"
    /\ ret.raised = "none"
    /\ Len(ret.samples) = 2
    /\ Len(ret.providers) = 2
    /\ BenchFailed(ret.providers[1].provider, ret.samples[1])
    /\ ret.providers[1].failures = 1
    /\ ~ret.providers[1].avg_confidence.none
    /\ Len(ret.providers[2].details) = 2
    /\ ret.providers[2].failures = 0

----------------------------------------------------------------------------
(* backend/utils/image_preprocessing.py: _resize_with_limit. Scales are
   exact fractions; max_dimension = 0 is None. *)

\* image.size, with largest_edge = max(width, height)
ImageSize(width, height) ==
    [width |-> width, height |-> height,
     largest_edge |-> IF width >= height THEN width ELSE height]

\* x < y on fractions
FracLess(x, y) == x.num * y.den < y.num * x.den

\* min(x, y)
FracMin(x, y) == IF FracLeq(x, y) THEN x ELSE y

\* the 1e-3 within which a scale counts as 1.0
ScaleTolerance == Frac(1, 1000)

\* abs(x - 1.0)
DistanceFromOne(x) ==
    IF x.num >= x.den THEN Frac(x.num - x.den, x.den) ELSE Frac(x.den - x.num, x.den)

\* the scale after the first clamp: max_dimension / largest_edge if the
\* scaled largest edge would exceed max_dimension
ClampedScale(scale_factor, max_dimension, largest_edge) ==
    IF largest_edge * scale_factor.num > max_dimension * scale_factor.den
    THEN Frac(max_dimension, largest_edge)
    ELSE scale_factor

\* target_scale of _resize_with_limit
TargetScale(scale_factor, max_dimension, largest_edge) ==
    IF max_dimension > 0
    THEN IF /\ FracLess(ClampedScale(scale_factor, max_dimension, largest_edge), Frac(1, 1))
            /\ FracLess(Frac(1, 1), scale_factor)
         THEN FracMin(scale_factor, Frac(max_dimension, largest_edge))
         ELSE ClampedScale(scale_factor, max_dimension, largest_edge)
    ELSE scale_factor

\* int(edge * target_scale): the floor of the product. The float quotient
\* max_dimension / largest_edge may lie just below the exact one, so that a
\* product that is a whole number may come out one lower (lower = 1)
ScaledEdge(edge, target_scale, scale_factor, lower) ==
    IF target_scale # scale_factor /\ (edge * target_scale.num) % target_scale.den = 0
    THEN (edge * target_scale.num) \div target_scale.den - lower
    ELSE (edge * target_scale.num) \div target_scale.den

\* the size of the image _resize_with_limit returns
ResizeWithLimit(size, scale_factor, max_dimension, lower) ==
    IF FracLeq(scale_factor, Frac(1, 1)) /\ max_dimension = 0 THEN size
    ELSE IF \/ TargetScale(scale_factor, max_dimension, size.largest_edge).num <= 0
            \/ FracLess(DistanceFromOne(TargetScale(scale_factor, max_dimension,
                                                    size.largest_edge)),
                        ScaleTolerance)
    THEN size
    ELSE ImageSize(ScaledEdge(size.width,
                              TargetScale(scale_factor, max_dimension, size.largest_edge),
                              scale_factor, lower),
                   ScaledEdge(size.height,
                              TargetScale(scale_factor, max_dimension, size.largest_edge),
                              scale_factor, lower))

\* ---- the images and settings handed to the resize ----

\* the edges of the images, in pixels
Edges == {1, 500} \cup 998..1002 \cup {2000, 2001}

ImageSizes ==
    { ImageSize(w, h) : w \in Edges, h \in Edges }

ScaleFactors == { Frac(1, 2), Frac(1, 1), Frac(3, 2), Frac(2, 1) }

MaxDimensions == {0, 999, 1000, 2000}

InitResize ==
    /\ settings = [OCR_PROVIDER |-> "tesseract", OCR_ENABLE_TESSERACT |-> TRUE,
                   OCR_ENABLE_GOOGLE_VISION |-> FALSE]
    /\ installed = ProviderClasses
    /\ multi = NoMulti
    /\ op = "idle"
    /\ arg \in [size : ImageSizes, scale_factor : ScaleFactors,
                max_dimension : MaxDimensions]
    /\ ret = NoRet
    /\ calls = <<>>
    /\ form = NoForm

\* _resize_with_limit(image, scale_factor, max_dimension)
DoResizeWithLimit(lower) ==
    /\ op = "idle"
    /\ op' = "resize_with_limit"
    /\ ret' = ResizeWithLimit(arg.size, arg.scale_factor, arg.max_dimension, lower)
    /\ UNCHANGED <<settings, installed, multi, arg, calls, form>>

ReturnResize ==
    /\ op = "resize_with_limit"
    /\ op' = "idle"
    /\ ret' = NoRet
    /\ UNCHANGED <<settings, installed, multi, arg, calls, form>>

NextResize ==
    \/ \E lower \in {0, 1} : DoResizeWithLimit(lower)
    \/ ReturnResize

SpecResize == InitResize /\ [][NextResize]_vars

\* ---- properties of the resize ----

\* C20: with a scale factor of at least 1.0 and a positive max_dimension, the
\* longest edge of the returned image does not exceed max_dimension
LongestEdgeWithinLimit ==
    (/\ op = "resize_with_limit"
     /\ FracLeq(Frac(1, 1), arg.scale_factor)
     /\ arg.max_dimension > 0) =>
        ret.largest_edge <= arg.max_dimension

\* C21: when an upscale is requested (scale_factor > 1.0), the returned image
\* is not smaller than the input: neither edge is shorter than before
UpscaleNeverShrinks ==
    (/\ op = "resize_with_limit"
     /\ FracLess(Frac(1, 1), arg.scale_factor)) =>
        /\ ret.width >= arg.size.width
        /\ ret.height >= arg.size.height

\* ---------------------------------------------------------------------
\* Binarization (backend/utils/image_preprocessing.py)
\* ---------------------------------------------------------------------

\* An image is the sequence of its pixels, each an RGB triple.

\* image.convert("L"): the luma of each pixel, L = R*299/1000 + G*587/1000 +
\* B*114/1000
GrayLevel(pixel) ==
    (pixel[1] * 299 + pixel[2] * 587 + pixel[3] * 114) \div 1000

ConvertL(image) == [i \in DOMAIN image |-> GrayLevel(image[i])]

\* the gray levels of a histogram
Levels == 0..255

\* cumulative after the histogram entries 0..level have been added
Cumulative(gray, level) ==
    Cardinality({i \in DOMAIN gray : gray[i] <= level})

\* _auto_threshold(gray): the first level at which cumulative reaches half of
\* the pixels, 128 if the loop ends without a break
DefaultThreshold == 128

AutoThreshold(gray) ==
    IF \E level \in Levels : 2 * Cumulative(gray, level) >= Len(gray)
    THEN CHOOSE level \in Levels :
            /\ 2 * Cumulative(gray, level) >= Len(gray)
            /\ \A lower \in Levels :
                  lower < level => 2 * Cumulative(gray, lower) < Len(gray)
    ELSE DefaultThreshold

\* threshold is None or threshold < 0 or threshold > 255
IsAuto(threshold) ==
    \/ ~threshold.given
    \/ threshold.value < 0
    \/ threshold.value > 255

\* the threshold binarize_image works with
UsedThreshold(gray, threshold) ==
    IF IsAuto(threshold) THEN AutoThreshold(gray) ELSE threshold.value

\* lambda x: 0 if x <= threshold else 255
PointLevelInclusive(x, threshold) == IF x <= threshold THEN 0 ELSE 255

\* lambda x: 0 if x < threshold else 255
PointLevel(x, threshold) == IF x < threshold THEN 0 ELSE 255

\* binary.convert("RGB"): a pixel of the bilevel image as an RGB triple
BilevelToRGB(level) == IF level = 0 THEN <<0, 0, 0>> ELSE <<255, 255, 255>>

\* gray.point(..., "1") followed by convert("RGB")
PointImage(gray, threshold) ==
    [i \in DOMAIN gray |-> BilevelToRGB(PointLevel(gray[i], threshold))]

\* binarize_image(image, threshold): the image returned, with the threshold
\* that was applied
BinarizeImage(image, threshold) ==
    [image |-> PointImage(ConvertL(image), UsedThreshold(ConvertL(image), threshold)),
     threshold |-> UsedThreshold(ConvertL(image), threshold)]

\* ---- the images and thresholds handed to the binarization ----

MaxPixels == 3

White == <<255, 255, 255>>

Black == <<0, 0, 0>>

\* black, white, two grays and two saturated colours (luma 76 and 29)
Pixels == { Black, White, <<100, 100, 100>>, <<128, 128, 128>>,
            <<255, 0, 0>>, <<0, 0, 255>> }

Images == UNION { [1..n -> Pixels] : n \in 1..MaxPixels }

\* None, and the values below, inside and above 0..255
Thresholds ==
    { [given |-> FALSE, value |-> 0] } \cup
    { [given |-> TRUE, value |-> v] : v \in {0 - 1, 0, 1, 77, 128, 255, 256} }

InitBinarize ==
    /\ settings = [OCR_PROVIDER |-> "tesseract", OCR_ENABLE_TESSERACT |-> TRUE,
                   OCR_ENABLE_GOOGLE_VISION |-> FALSE]
    /\ installed = ProviderClasses
    /\ multi = NoMulti
    /\ op = "idle"
    /\ arg \in [image : Images, threshold : Thresholds]
    /\ ret = NoRet
    /\ calls = <<>>
    /\ form = NoForm

\* binarize_image(image, threshold)
DoBinarizeImage ==
    /\ op = "idle"
    /\ op' = "binarize_image"
    /\ ret' = BinarizeImage(arg.image, arg.threshold)
    /\ calls' = <<arg.image>>
    /\ UNCHANGED <<settings, installed, multi, arg, form>>

\* binarize_image applied to its own output, with the same threshold setting
BinarizeAgain ==
    /\ op = "binarize_image"
    /\ Len(calls) = 1
    /\ op' = "binarize_image"
    /\ arg' = [arg EXCEPT !.image = ret.image]
    /\ ret' = BinarizeImage(ret.image, arg.threshold)
    /\ calls' = Append(calls, ret.image)
    /\ UNCHANGED <<settings, installed, multi, form>>

ReturnBinarize ==
    /\ op = "binarize_image"
    /\ op' = "idle"
    /\ ret' = NoRet
    /\ calls' = <<>>
    /\ UNCHANGED <<settings, installed, multi, arg, form>>

NextBinarize ==
    \/ DoBinarizeImage
    \/ BinarizeAgain
    \/ ReturnBinarize

SpecBinarize == InitBinarize /\ [][NextBinarize]_vars

\* ---- properties of the binarization ----

\* the image is white all over
AllWhite(image) == \A i \in DOMAIN image : image[i] = White

\* C22: binarize_image applied to its own output with the same threshold
\* setting returns that output again; with the auto setting the threshold is
\* the first gray level at which the cumulative histogram reaches half of the
\* pixels, and an all-white image comes out all white
BinarizeIdempotent ==
    op = "binarize_image" =>
        /\ Len(calls) = 2 => ret.image = arg.image
        /\ IsAuto(arg.threshold) =>
              /\ 2 * Cumulative(ConvertL(arg.image), ret.threshold) >= Len(arg.image)
              /\ \A level \in Levels :
                    level < ret.threshold =>
                        2 * Cumulative(ConvertL(arg.image), level) < Len(arg.image)
              /\ AllWhite(arg.image) => AllWhite(ret.image)

\* an image with dark and light pixels has been binarized twice with the auto
\* setting, and both black and white came out
MixedImageBinarizedTwice ==
    /\ op = "binarize_image"
    /\ Len(calls) = 2
    /\ IsAuto(arg.threshold)
    /\ ~AllWhite(calls[1])
    /\ \E i, j \in DOMAIN ret.image : ret.image[i] = Black /\ ret.image[j] = White

\* ---------------------------------------------------------------------
\* The local-engine backend (backend/ocr/tesseract_provider.py)
\* ---------------------------------------------------------------------

\* What the engine gives for one configuration: the two calls raise, or
\* image_to_data gives the lists conf and text and image_to_string the string.
EngineOutput(raises, conf, text, string) ==
    [raises |-> raises, conf |-> conf, text |-> text, string |-> string]

\* psm_options
PsmOptions(psm) ==
    IF ~psm.given THEN <<6, 4, 11, 12, 3>> ELSE <<psm.value>>

\* [int(conf) for conf in data['conf'] if int(conf) > 0]
Confidences(data) == SelectSeq(data.conf, LAMBDA conf : conf > 0)

\* sum(confidences) / len(confidences) if confidences else 0.0
AvgConfidence(data) ==
    IF Confidences(data) = <<>> THEN Frac(0, 1)
    ELSE Frac(SumSeq(Confidences(data)), Len(Confidences(data)))

\* len([word for word in data['text'] if word.strip()])
WordCount(data) ==
    Len(SelectSeq(data.text, LAMBDA word : StripText(word) # <<>>))

\* avg_confidence * (1 + word_count / 100)
PsmScore(data) ==
    Frac(AvgConfidence(data).num * (100 + WordCount(data)),
         AvgConfidence(data).den * 100)

\* the result dictionary built from one engine output; confidence is
\* round(avg_confidence, 2) in hundredths
PsmResult(data, psm_mode) ==
    [raw_text |-> StripText(data.string),
     confidence |-> RoundedMean(SumSeq(Confidences(data)), Len(Confidences(data))),
     word_count |-> WordCount(data),
     psm_mode |-> psm_mode,
     provider |-> "tesseract"]

\* best_result = None, best_confidence = 0.0
NoBest ==
    [none |-> TRUE, best_confidence |-> Frac(0, 1),
     best_result |-> PsmResult(EngineOutput(FALSE, <<>>, <<>>, <<>>), 0)]

\* one round of the loop in which a later candidate also wins on a tie
PsmStepLatestOnTie(acc, psm_mode, data) ==
    IF data.raises THEN acc
    ELSE IF FracLeq(acc.best_confidence, PsmScore(data)) \/ acc.none
         THEN [none |-> FALSE, best_confidence |-> PsmScore(data),
               best_result |-> PsmResult(data, psm_mode)]
         ELSE acc

\* one round of the loop over psm_options: a candidate whose engine call
\* raises is skipped, a candidate takes over if its score is higher than the
\* best so far or nothing has been kept yet
PsmStep(acc, psm_mode, data) ==
    IF data.raises THEN acc
    ELSE IF FracLess(acc.best_confidence, PsmScore(data)) \/ acc.none
         THEN [none |-> FALSE, best_confidence |-> PsmScore(data),
               best_result |-> PsmResult(data, psm_mode)]
         ELSE acc

RECURSIVE PsmLoop(_, _, _)
PsmLoop(acc, psm_options, engine) ==
    IF psm_options = <<>> THEN acc
    ELSE PsmLoop(PsmStep(acc, Head(psm_options), engine[Head(psm_options)]),
                 Tail(psm_options), engine)

\* best_result.setdefault("pages_processed", 1) and
\* best_result.setdefault("page_results", [...])
WithPages(result) ==
    [raised |-> "none",
     raw_text |-> result.raw_text,
     confidence |-> result.confidence,
     word_count |-> result.word_count,
     psm_mode |-> result.psm_mode,
     provider |-> result.provider,
     pages_processed |-> 1,
     page_results |-> <<[page |-> 1, raw_text |-> result.raw_text,
                         confidence |-> result.confidence]>>]

TesseractRaised ==
    [raised |-> "Exception", raw_text |-> <<>>, confidence |-> 0, word_count |-> 0,
     psm_mode |-> 0, provider |-> "tesseract", pages_processed |-> 0,
     page_results |-> <<>>]

\* the end of extract_text: the best candidate, or the basic extraction with
\* --psm 6 if no candidate was kept
TesseractFinish(acc, fallback) ==
    IF ~acc.none THEN WithPages(acc.best_result)
    ELSE IF fallback.raises THEN TesseractRaised
    ELSE WithPages(PsmResult(fallback, 6))

\* TesseractProvider.extract_text(image, psm=psm)
TesseractExtractText(psm, engine, fallback) ==
    TesseractFinish(PsmLoop(NoBest, PsmOptions(psm), engine), fallback)

\* ---- the engine outputs handed to the backend ----

PsmModes == {6, 4, 11, 12, 3}

\* the engine raises; no word; one word of confidence 90; two words of
\* confidences 80 and 40; one word of confidence 60 and a blank entry; another
\* word of confidence 90
EngineOutputs ==
    { EngineOutput(TRUE, <<>>, <<>>, <<>>),
      EngineOutput(FALSE, <<0 - 1>>, << <<>> >>, <<>>),
      EngineOutput(FALSE, <<0 - 1, 90>>, << <<>>, <<"a">> >>, <<"a", "nl">>),
      EngineOutput(FALSE, <<80, 40>>, << <<"a">>, <<"b">> >>, <<"a", " ", "b">>),
      EngineOutput(FALSE, <<60, 0>>, << <<"a">>, <<" ">> >>, <<" ", "a">>),
      EngineOutput(FALSE, <<90>>, << <<"b">> >>, <<"b">>) }

FallbackOutputs ==
    { EngineOutput(TRUE, <<>>, <<>>, <<>>),
      EngineOutput(FALSE, <<80, 40>>, << <<"a">>, <<"b">> >>, <<"a", " ", "b">>) }

PsmSettings ==
    { [given |-> FALSE, value |-> 0], [given |-> TRUE, value |-> 11] }

InitTesseract ==
    /\ settings = [OCR_PROVIDER |-> "tesseract", OCR_ENABLE_TESSERACT |-> TRUE,
                   OCR_ENABLE_GOOGLE_VISION |-> FALSE]
    /\ installed = ProviderClasses
    /\ multi = NoMulti
    /\ op = "idle"
    /\ arg \in [psm : PsmSettings, engine : [PsmModes -> EngineOutputs],
                fallback : FallbackOutputs]
    /\ ret = NoRet
    /\ calls = <<>>
    /\ form = NoForm

DoTesseractExtractText ==
    /\ op = "idle"
    /\ op' = "tesseract_extract_text"
    /\ ret' = TesseractExtractText(arg.psm, arg.engine, arg.fallback)
    /\ UNCHANGED <<settings, installed, multi, arg, calls, form>>

ReturnTesseract ==
    /\ op = "tesseract_extract_text"
    /\ op' = "idle"
    /\ ret' = NoRet
    /\ UNCHANGED <<settings, installed, multi, arg, calls, form>>

NextTesseract ==
    \/ DoTesseractExtractText
    \/ ReturnTesseract

SpecTesseract == InitTesseract /\ [][NextTesseract]_vars

\* ---- properties of the local-engine backend ----

\* the fixed candidate modes, in the order they are tried
CandidateModes == <<6, 4, 11, 12, 3>>

\* the positions of the candidates whose engine call did not raise
RanCandidates == { i \in DOMAIN CandidateModes : ~arg.engine[CandidateModes[i]].raises }

CandidateScore(i) == PsmScore(arg.engine[CandidateModes[i]])

\* the earliest candidate of maximal score among those that ran
BestCandidates ==
    { i \in RanCandidates :
        /\ \A j \in RanCandidates : FracLeq(CandidateScore(j), CandidateScore(i))
        /\ \A j \in RanCandidates : j < i => FracLess(CandidateScore(j), CandidateScore(i)) }

AdmissionFormColumns ==
    { "id", "filename", "file_path", "upload_date", "ocr_provider", "status",
      "student_profile_id", "extracted_data", "student_name", "date_of_birth",
      "gender", "category", "nationality", "religion", "aadhar_number",
      "blood_group", "permanent_address", "correspondence_address", "pincode",
      "city", "state", "phone_number", "alternate_phone", "email",
      "emergency_contact_name", "emergency_contact_phone", "father_name",
      "father_occupation", "father_phone", "mother_name", "mother_occupation",
      "mother_phone", "guardian_name", "guardian_relation", "guardian_phone",
      "annual_income", "tenth_board", "tenth_year", "tenth_percentage",
      "tenth_school", "twelfth_board", "twelfth_year", "twelfth_percentage",
      "twelfth_school", "previous_qualification", "graduation_details",
      "course_applied", "application_number", "admission_date", "additional_info",
      "verified_date", "verified_by" }

\* A column value is NULL or a text; a filter argument is None or a value.
Null == [null |-> TRUE, value |-> <<>>]

TextValue(t) == [null |-> FALSE, value |-> t]

NotGiven == [given |-> FALSE, value |-> <<>>]

Given(v) == [given |-> TRUE, value |-> v]

\* status=None
NoStatus == [given |-> FALSE, value |-> "none"]

\* value LIKE pattern: % stands for any run of characters, _ for any one
RECURSIVE LikeMatch(_, _)
LikeMatch(value, pattern) ==
    IF pattern = <<>> THEN value = <<>>
    ELSE IF Head(pattern) = "%"
         THEN \E k \in 0..Len(value) :
                 LikeMatch(SubSeq(value, k + 1, Len(value)), Tail(pattern))
         ELSE IF value = <<>> THEN FALSE
              ELSE /\ Head(pattern) = "_" \/ Head(pattern) = Head(value)
                   /\ LikeMatch(Tail(value), Tail(pattern))

\* column.ilike(pattern): lower(column) LIKE lower(pattern), never true of NULL
Ilike(column, pattern) ==
    /\ ~column.null
    /\ LikeMatch(LowerText(column.value), LowerText(pattern))

\* if text: query = query.filter(column.ilike(f"%{text.strip()}%"))
TextFilter(query, column, text) ==
    IF text.given /\ text.value # <<>>
    THEN SelectSeq(query, LAMBDA row :
                      Ilike(row[column], <<"%">> \o StripText(text.value) \o <<"%">>))
    ELSE query

\* if status: query = query.filter(AdmissionForm.status == status)
StatusFilter(query, status) ==
    IF status.given
    THEN SelectSeq(query, LAMBDA row : row.status = status.value)
    ELSE query

\* a datetime: the day and the time of the day
DateTime(day, hour, minute, second, microsecond) ==
    [day |-> day, hour |-> hour, minute |-> minute, second |-> second,
     microsecond |-> microsecond]

SecondOfDay(d) == d.hour * 3600 + d.minute * 60 + d.second

\* x <= y on datetimes
DateTimeLeq(x, y) ==
    \/ x.day < y.day
    \/ /\ x.day = y.day
       /\ \/ SecondOfDay(x) < SecondOfDay(y)
          \/ /\ SecondOfDay(x) = SecondOfDay(y)
             /\ x.microsecond <= y.microsecond

\* date_from=None, date_to=None
NoDate == [given |-> FALSE, value |-> DateTime(0, 0, 0, 0, 0)]

\* date_from.replace(hour=0, minute=0, second=0, microsecond=0)
StartOfDay(d) == DateTime(d.day, 0, 0, 0, 0)

\* date_to.replace(hour=23, minute=59, second=59, microsecond=999999)
EndOfDay(d) == DateTime(d.day, 23, 59, 59, 999999)

\* if date_from: query = query.filter(AdmissionForm.upload_date >= start)
DateFromFilter(query, date_from) ==
    IF date_from.given
    THEN SelectSeq(query, LAMBDA row :
                      DateTimeLeq(StartOfDay(date_from.value), row.upload_date))
    ELSE query

\* if date_to: query = query.filter(AdmissionForm.upload_date <= end)
DateToFilter(query, date_to) ==
    IF date_to.given
    THEN SelectSeq(query, LAMBDA row :
                      DateTimeLeq(row.upload_date, EndOfDay(date_to.value)))
    ELSE query

\* the filters on the columns AdmissionForm has, in the order of the code
FilterColumns(query, f) ==
    DateToFilter(
      DateFromFilter(
        StatusFilter(
          TextFilter(
            TextFilter(
              TextFilter(
                TextFilter(
                  TextFilter(query, "student_name", f.student_name),
                  "phone_number", f.phone_number),
                "email", f.email),
              "application_number", f.application_number),
            "course_applied", f.course_applied),
          f.status),
        f.date_from),
      f.date_to)

\* apply_form_filters(query, **filters): the rows of the returned query.
\* AdmissionForm.enrollment_number is evaluated when that filter is given,
\* and raises AttributeError because the class has no such attribute
ApplyFormFilters(query, f) ==
    IF /\ f.enrollment_number.given /\ f.enrollment_number.value # <<>>
       /\ "enrollment_number" \notin AdmissionFormColumns
    THEN [raised |-> "AttributeError", rows |-> <<>>]
    ELSE [raised |-> "none", rows |-> FilterColumns(query, f)]

\* ---- the tables and filters handed to apply_form_filters ----

MaxForms == 2

\* a row of admission_forms
FormRow(student_name, email, status, upload_date) ==
    [student_name |-> student_name,
     phone_number |-> TextValue(<<"9">>),
     email |-> email,
     application_number |-> Null,
     course_applied |-> TextValue(<<"A", "b">>),
     status |-> status,
     upload_date |-> upload_date]

FormRows ==
    { FormRow(TextValue(n), e, s, d) :
        n \in { <<"A", "b">>, <<"a", "x", "b">>, <<"a", "_", "b">> },
        e \in { Null, TextValue(<<"b">>) },
        s \in { "extracted", "verified" },
        d \in { DateTime(1, 23, 59, 59, 999999), DateTime(2, 0, 0, 0, 0),
                DateTime(2, 23, 59, 59, 999999), DateTime(3, 0, 0, 0, 0) } }

Tables == UNION { [1..n -> FormRows] : n \in 0..MaxForms }

Filters(student_name, phone_number, email, enrollment_number, application_number,
        course_applied, status, date_from, date_to) ==
    [student_name |-> student_name, phone_number |-> phone_number, email |-> email,
     enrollment_number |-> enrollment_number,
     application_number |-> application_number, course_applied |-> course_applied,
     status |-> status, date_from |-> date_from, date_to |-> date_to]

NameFilters ==
    { NotGiven, Given(<<>>), Given(<<"a">>), Given(<<" ", "B", " ">>),
      Given(<<"a", "_", "b">>), Given(<<"%">>) }

\* filters on the name, the e-mail address, the status and the dates, and
\* filters on one of the other columns
FilterSets ==
    { Filters(n, NotGiven, e, NotGiven, NotGiven, NotGiven, s, from, to) :
        n \in NameFilters,
        e \in { NotGiven, Given(<<"B">>) },
        s \in { NoStatus, Given("extracted") },
        from \in { NoDate, Given(DateTime(2, 14, 30, 0, 0)) },
        to \in { NoDate, Given(DateTime(2, 0, 0, 0, 0)) } }
    \cup
    { Filters(NotGiven, p, NotGiven, en, ap, c, NoStatus, NoDate, NoDate) :
        p \in { NotGiven, Given(<<"9">>) },
        en \in { NotGiven, Given(<<"a">>) },
        ap \in { NotGiven, Given(<<"a">>) },
        c \in { NotGiven, Given(<<"a">>) } }

InitFilter ==
    /\ settings = [OCR_PROVIDER |-> "tesseract", OCR_ENABLE_TESSERACT |-> TRUE,
                   OCR_ENABLE_GOOGLE_VISION |-> FALSE]
    /\ installed = ProviderClasses
    /\ multi = NoMulti
    /\ op = "idle"
    /\ arg \in [query : Tables, filters : FilterSets]
    /\ ret = NoRet
    /\ calls = <<>>
    /\ form = NoForm

DoApplyFormFilters ==
    /\ op = "idle"
    /\ op' = "apply_form_filters"
    /\ ret' = ApplyFormFilters(arg.query, arg.filters)
    /\ UNCHANGED <<settings, installed, multi, arg, calls, form>>

ReturnFilter ==
    /\ op = "apply_form_filters"
    /\ op' = "idle"
    /\ ret' = NoRet
    /\ UNCHANGED <<settings, installed, multi, arg, calls, form>>

NextFilter ==
    \/ DoApplyFormFilters
    \/ ReturnFilter

SpecFilter == InitFilter /\ [][NextFilter]_vars

\* ---- properties of the form filters ----

TextColumns ==
    { "student_name", "phone_number", "email", "enrollment_number",
      "application_number", "course_applied" }

\* a text filter counts as supplied when it is a non-empty string; its text is
\* taken without the surrounding blanks
Supplied(text) == text.given /\ text.value # <<>>

\* the row holds the text of the filter as a substring of the column,
\* whatever the case
HoldsSubstring(row, column, text) ==
    /\ column \in DOMAIN row
    /\ ~row[column].null
    /\ Contains(LowerText(StripText(text.value)), LowerText(row[column].value))

\* the row satisfies every supplied filter
Satisfies(row, f) ==
    /\ \A column \in TextColumns :
          Supplied(f[column]) => HoldsSubstring(row, column, f[column])
    /\ f.status.given => row.status = f.status.value
    /\ f.date_from.given => row.upload_date.day >= f.date_from.value.day
    /\ f.date_to.given => row.upload_date.day <= f.date_to.value.day

\* C24: apply_form_filters returns exactly the forms that satisfy every
\* supplied filter: text filters as case-insensitive substrings, status
\* exactly, date_from and date_to inclusively over whole days
FiltersReturnExactlyMatches ==
    op = "apply_form_filters" =>
        /\ ret.raised = "none"
        /\ ret.rows = SelectSeq(arg.query, LAMBDA row : Satisfies(row, arg.filters))

\* ---------------------------------------------------------------------
\* Export (backend/api/routes/export.py)
\* ---------------------------------------------------------------------

\* the attribute names of EXPORT_FIELDS, in header order
ExportAttrs ==
    << "id", "filename", "status", "ocr_provider", "student_profile_id",
       "upload_date", "verified_date", "verified_by", "student_name",
       "date_of_birth", "gender", "category", "nationality", "religion",
       "aadhar_number", "blood_group", "permanent_address",
       "correspondence_address", "city", "state", "pincode", "phone_number",
       "alternate_phone", "email", "emergency_contact_name",
       "emergency_contact_phone", "father_name", "father_occupation",
       "father_phone", "mother_name", "mother_occupation", "mother_phone",
       "guardian_name", "guardian_relation", "guardian_phone", "annual_income",
       "tenth_board", "tenth_year", "tenth_percentage", "tenth_school",
       "twelfth_board", "twelfth_year", "twelfth_percentage", "twelfth_school",
       "previous_qualification", "graduation_details", "course_applied",
       "application_number", "enrollment_number", "admission_date",
       "additional_info" >>

\* An attribute value: None, a str, an int, a datetime, a FormStatus or a
\* dict, with the characters it is written with.
Value(kind, text) == [kind |-> kind, text |-> text]

None == Value("none", <<>>)

\* getattr(form, attr, None)
GetAttr(obj, attr) == IF attr \in DOMAIN obj THEN obj[attr] ELSE None

\* json.dumps(value, ensure_ascii=False) of a dict
JsonDumps(value) == Value("str", <<"{">> \o value.text \o <<"}">>)

\* the entry form_to_csv_row appends for one attribute value
CsvValue(value) ==
    IF value.kind = "datetime" THEN Value("str", value.text)
    ELSE IF value.kind = "status" THEN Value("str", value.text)
    ELSE IF value.kind = "dict" THEN JsonDumps(value)
    ELSE IF value.kind = "none" THEN Value("str", <<>>)
    ELSE Value("str", value.text)

\* form_to_csv_row(form)
FormToCsvRow(obj) ==
    [i \in DOMAIN ExportAttrs |-> CsvValue(GetAttr(obj, ExportAttrs[i]))]

\* the entry form_to_json_dict records for one attribute value
JsonValue(value) ==
    IF value.kind = "datetime" THEN Value("str", value.text)
    ELSE IF value.kind = "status" THEN Value("str", value.text)
    ELSE value

\* form_to_json_dict(form)
FormToJsonDict(obj) ==
    [attr \in Range(ExportAttrs) |->
        IF attr = "additional_info" /\ JsonValue(GetAttr(obj, attr)) = None
        THEN Value("dict", <<>>)
        ELSE JsonValue(GetAttr(obj, attr))]

\* ---- the forms handed to the export ----

Statuses == {"uploaded", "extracting", "extracted", "verified", "error"}

\* an AdmissionForm loaded from the table: a value for every column
AdmissionFormObject(id, status, verified_date, student_name, additional_info) ==
    [column \in AdmissionFormColumns |->
        IF column = "id" THEN id
        ELSE IF column = "filename" THEN Value("str", <<"f", ".", "p", "d", "f">>)
        ELSE IF column = "file_path" THEN Value("str", <<"u", "/", "f">>)
        ELSE IF column = "upload_date" THEN Value("datetime", <<"2025-01-01T10:00:00">>)
        ELSE IF column = "ocr_provider" THEN Value("str", <<"tesseract">>)
        ELSE IF column = "status" THEN status
        ELSE IF column = "verified_date" THEN verified_date
        ELSE IF column = "student_name" THEN student_name
        ELSE IF column = "additional_info" THEN additional_info
        ELSE None]

AdmissionFormObjects ==
    { AdmissionFormObject(id, status, verified_date, student_name, additional_info) :
        id \in { Value("int", <<"1">>), Value("int", <<"1", "2">>) },
        status \in { Value("status", <<s>>) : s \in Statuses },
        verified_date \in { None, Value("datetime", <<"2025-01-02T00:00:00">>) },
        student_name \in { None, Value("str", <<>>), Value("str", <<"A", "b">>) },
        additional_info \in { None, Value("dict", <<>>),
                              Value("dict", <<"notes", ":", "x">>) } }

InitExport ==
    /\ settings = [OCR_PROVIDER |-> "tesseract", OCR_ENABLE_TESSERACT |-> TRUE,
                   OCR_ENABLE_GOOGLE_VISION |-> FALSE]
    /\ installed = ProviderClasses
    /\ multi = NoMulti
    /\ op = "idle"
    /\ arg \in [form : AdmissionFormObjects]
    /\ ret = NoRet
    /\ calls = <<>>
    /\ form = NoForm

DoFormToCsvRow ==
    /\ op = "idle"
    /\ op' = "form_to_csv_row"
    /\ ret' = FormToCsvRow(arg.form)
    /\ UNCHANGED <<settings, installed, multi, arg, calls, form>>

DoFormToJsonDict ==
    /\ op = "idle"
    /\ op' = "form_to_json_dict"
    /\ ret' = FormToJsonDict(arg.form)
    /\ UNCHANGED <<settings, installed, multi, arg, calls, form>>

ReturnExport ==
    /\ op \in {"form_to_csv_row", "form_to_json_dict"}
    /\ op' = "idle"
    /\ ret' = NoRet
    /\ UNCHANGED <<settings, installed, multi, arg, calls, form>>

NextExport ==
    \/ DoFormToCsvRow
    \/ DoFormToJsonDict
    \/ ReturnExport

SpecExport == InitExport /\ [][NextExport]_vars

\* ---- properties of the export ----

\* the text a stored value is exported with: None as the empty string, a dict
\* as JSON, a status as its string
ExportedText(value) ==
    IF value.kind = "none" THEN <<>>
    ELSE IF value.kind = "dict" THEN <<"{">> \o value.text \o <<"}">>
    ELSE value.text

\* C25: form_to_csv_row returns one value per EXPORT_FIELDS entry in header
\* order, each the form's stored value of that attribute (None as empty
\* string, dict as JSON, status as its string), and form_to_json_dict has
\* exactly the EXPORT_FIELDS attribute names as keys
ExportAlignedWithFields ==
    /\ op = "form_to_csv_row" =>
          /\ Len(ret) = Len(ExportAttrs)
          /\ \A i \in DOMAIN ExportAttrs :
                /\ ExportAttrs[i] \in DOMAIN arg.form
                /\ ret[i] = Value("str", ExportedText(arg.form[ExportAttrs[i]]))
    /\ op = "form_to_json_dict" => DOMAIN ret = Range(ExportAttrs)

\* ---------------------------------------------------------------------
\* Stored records (backend/api/routes/upload.py, forms.py, students.py)
\* ---------------------------------------------------------------------

\* The tables are kept in the variable form: the row of the admission form
\* and the rows of student_profiles. A str column or argument is Null (None)
\* or TextValue(t).

\* the typed columns the extraction fills, as far as the parser gives them
AutoFillFields == {"aadhar_number", "pincode", "phone_number", "tenth_percentage"}

\* structured_data of an extraction: None, or the dictionary of the parser
NoStructuredData == [none |-> TRUE, data |-> <<>>]

StructuredDict(data) == [none |-> FALSE, data |-> data]

\* no form stored yet
NoFormRow ==
    [exists |-> FALSE, is_srcc_form |-> FALSE, status |-> "none",
     student_name |-> Null, aadhar_number |-> Null, phone_number |-> Null,
     pincode |-> Null, tenth_percentage |-> Null,
     structured_data |-> NoStructuredData, student_profile_id |-> 0]

\* AdmissionForm(filename=..., status=FormStatus.EXTRACTING), committed
NewFormRow(is_srcc_form) ==
    [NoFormRow EXCEPT !.exists = TRUE, !.is_srcc_form = is_srcc_form,
                      !.status = "extracting"]

StoredTables(row, student_profiles) == [row |-> row, student_profiles |-> student_profiles]

\* what the OCR part of a route hands on: it raised, or ocr_result['raw_text']
OcrOutcome(raises, raw_text) == [raises |-> raises, raw_text |-> raw_text]

\* structured_data of the route: parse_form_text(raw_text) if the text is not
\* empty and the filename is that of an SRCC form, None otherwise
RouteStructuredData(row, ocr) ==
    IF ocr.raw_text # <<>> /\ row.is_srcc_form
    THEN StructuredDict(Parse(ocr.raw_text).parsed)
    ELSE NoStructuredData

\* for field in [...]: if structured_data.get(field): setattr(form, field, ...)
AutoFill(row, structured) ==
    [column \in DOMAIN row |->
        IF /\ column \in AutoFillFields
           /\ ~structured.none
           /\ column \in DOMAIN structured.data
           /\ structured.data[column] # <<>>
        THEN TextValue(structured.data[column])
        ELSE row[column]]

\* the end of the extraction in upload_form and re_extract_form: auto-fill,
\* form.extracted_data = ocr_result, form.status = EXTRACTED; ERROR if the
\* extraction raised
Extracted(row, ocr) ==
    IF ocr.raises THEN [row EXCEPT !.status = "error"]
    ELSE [AutoFill(row, RouteStructuredData(row, ocr)) EXCEPT
             !.structured_data = RouteStructuredData(row, ocr),
             !.status = "extracted"]

\* a truthy str: neither None nor ''
TruthyText(text) == ~text.null /\ text.value # <<>>

\* not text or not text.strip()
Blank(text) == ~TruthyText(text) \/ StripText(text.value) = <<>>

\* the profiles the lookups of students.py find: the name is equal, and the
\* aadhar_number is equal if one is given, IS NULL otherwise
Existing(student_profiles, student_name, aadhar_number) ==
    SelectSeq(student_profiles, LAMBDA profile :
        /\ profile.student_name = student_name
        /\ IF TruthyText(aadhar_number)
           THEN profile.aadhar_number = aadhar_number
           ELSE profile.aadhar_number.null)

\* StudentProfile(student_name=..., aadhar_number=...), added and committed
WithNewProfile(student_profiles, student_name, aadhar_number) ==
    Append(student_profiles,
           [id |-> Len(student_profiles) + 1, student_name |-> student_name,
            aadhar_number |-> aadhar_number])

\* get_or_create_student_profile(db, student_name, aadhar_number): the table
\* afterwards
GetOrCreateProfiles(student_profiles, student_name, aadhar_number) ==
    IF Existing(student_profiles, student_name, aadhar_number) = <<>>
    THEN WithNewProfile(student_profiles, student_name, aadhar_number)
    ELSE student_profiles

\* the id of the profile get_or_create_student_profile returns
GetOrCreateId(student_profiles, student_name, aadhar_number) ==
    IF Existing(student_profiles, student_name, aadhar_number) = <<>>
    THEN Len(student_profiles) + 1
    ELSE Head(Existing(student_profiles, student_name, aadhar_number)).id

\* verify_form: the row it commits
VerifiedRow(row, student_profiles, v) ==
    [row EXCEPT !.student_name = v.student_name,
                !.aadhar_number = v.aadhar_number,
                !.phone_number = v.phone_number,
                !.pincode = Null,
                !.tenth_percentage = Null,
                !.status = "verified",
                !.student_profile_id =
                    GetOrCreateId(student_profiles, v.student_name, v.aadhar_number)]

\* update_form: a value that is not None is written; the status becomes
\* VERIFIED if verification.student_name is truthy
UpdatedRow(row, v) ==
    [row EXCEPT !.student_name = IF v.student_name.null THEN @ ELSE v.student_name,
                !.aadhar_number = IF v.aadhar_number.null THEN @ ELSE v.aadhar_number,
                !.phone_number = IF v.phone_number.null THEN @ ELSE v.phone_number,
                !.status = IF TruthyText(v.student_name) THEN "verified" ELSE @]

\* ---- the requests ----

MaxProfiles == 2

AadharText == <<"1", "2", "3", "4", "1", "2", "3", "4", "1", "2", "3", "4">>

\* the extraction raises, or recognizes no text, a phone number, or an Aadhar
\* number
OcrOutcomes ==
    { OcrOutcome(TRUE, <<>>),
      OcrOutcome(FALSE, <<>>),
      OcrOutcome(FALSE, <<"phone", ":", " ">> \o Mobile),
      OcrOutcome(FALSE, <<"aadhar", ":", " ">> \o AadharText) }

\* the bodies of verify_form and update_form
Verifications ==
    [student_name : { Null, TextValue(<<>>), TextValue(<<" ">>), TextValue(<<"A">>) },
     aadhar_number : { Null, TextValue(<<>>) },
     phone_number : { Null }]

InitRecords ==
    /\ settings = [OCR_PROVIDER |-> "tesseract", OCR_ENABLE_TESSERACT |-> TRUE,
                   OCR_ENABLE_GOOGLE_VISION |-> FALSE]
    /\ installed = ProviderClasses
    /\ multi = NoMulti
    /\ op = "idle"
    /\ arg = NoArg
    /\ ret = NoRet
    /\ calls = <<>>
    /\ form = StoredTables(NoFormRow, <<>>)

\* upload_form: the form is stored, then the extraction fills it
UploadFormRecord(is_srcc_form, ocr) ==
    /\ op = "idle"
    /\ ~form.row.exists
    /\ op' = "upload_form"
    /\ arg' = [ocr |-> ocr]
    /\ form' = [form EXCEPT !.row = Extracted(NewFormRow(is_srcc_form), ocr)]
    /\ ret' = [status_code |-> IF ocr.raises THEN 500 ELSE 201]
    /\ UNCHANGED <<settings, installed, multi, calls>>

\* re_extract_form
ReExtractFormRecord(ocr) ==
    /\ op = "idle"
    /\ op' = "re_extract_form"
    /\ arg' = [ocr |-> ocr]
    /\ IF ~form.row.exists
       THEN /\ ret' = [status_code |-> 404]
            /\ UNCHANGED form
       ELSE /\ ret' = [status_code |-> IF ocr.raises THEN 500 ELSE 200]
            /\ form' = [form EXCEPT !.row = Extracted(form.row, ocr)]
    /\ UNCHANGED <<settings, installed, multi, calls>>

\* verify_form: nothing is committed when the name is blank. The table of
\* profiles grows to MaxProfiles rows at most.
VerifyForm(v) ==
    /\ op = "idle"
    /\ Len(GetOrCreateProfiles(form.student_profiles, v.student_name,
                               v.aadhar_number)) <= MaxProfiles
    /\ op' = "verify_form"
    /\ arg' = [verification |-> v]
    /\ IF ~form.row.exists
       THEN /\ ret' = [status_code |-> 404]
            /\ UNCHANGED form
       ELSE IF Blank(v.student_name)
       THEN /\ ret' = [status_code |-> 400]
            /\ UNCHANGED form
       ELSE /\ ret' = [status_code |-> 200]
            /\ form' = StoredTables(VerifiedRow(form.row, form.student_profiles, v),
                              GetOrCreateProfiles(form.student_profiles,
                                                  v.student_name, v.aadhar_number))
    /\ UNCHANGED <<settings, installed, multi, calls>>

\* update_form
UpdateForm(v) ==
    /\ op = "idle"
    /\ op' = "update_form"
    /\ arg' = [verification |-> v]
    /\ IF ~form.row.exists
       THEN /\ ret' = [status_code |-> 404]
            /\ UNCHANGED form
       ELSE /\ ret' = [status_code |-> 200]
            /\ form' = [form EXCEPT !.row = UpdatedRow(form.row, v)]
    /\ UNCHANGED <<settings, installed, multi, calls>>

\* create_student_profile(student_name, aadhar_number)
CreateStudentProfile(student_name, aadhar_number) ==
    /\ op = "idle"
    /\ Len(form.student_profiles) < MaxProfiles
    /\ op' = "create_student_profile"
    /\ arg' = [student_name |-> student_name, aadhar_number |-> aadhar_number]
    /\ IF ~TruthyText(student_name)
          \/ Existing(form.student_profiles, student_name, aadhar_number) # <<>>
       THEN /\ ret' = [status_code |-> 400]
            /\ UNCHANGED form
       ELSE /\ ret' = [status_code |-> 201]
            /\ form' = [form EXCEPT !.student_profiles =
                           WithNewProfile(@, student_name, aadhar_number)]
    /\ UNCHANGED <<settings, installed, multi, calls>>

\* the response has been sent
ReturnRecords ==
    /\ op \in {"upload_form", "re_extract_form", "verify_form", "update_form",
               "create_student_profile"}
    /\ op' = "idle"
    /\ arg' = NoArg
    /\ ret' = NoRet
    /\ UNCHANGED <<settings, installed, multi, calls, form>>

NextRecords ==
    \/ \E is_srcc_form \in BOOLEAN, ocr \in OcrOutcomes : UploadFormRecord(is_srcc_form, ocr)
    \/ \E ocr \in OcrOutcomes : ReExtractFormRecord(ocr)
    \/ \E v \in Verifications : VerifyForm(v)
    \/ \E v \in Verifications : UpdateForm(v)
    \/ \E v \in Verifications : CreateStudentProfile(v.student_name, v.aadhar_number)
    \/ ReturnRecords

SpecRecords == InitRecords /\ [][NextRecords]_vars

\* ---- properties of the stored records ----

\* C26: every form whose stored status is VERIFIED has a non-blank
\* student_name
VerifiedFormHasName ==
    (form.row.exists /\ form.row.status = "verified") => ~Blank(form.row.student_name)

\* the column holds the value an extraction wrote from its structured_data
WrittenByExtraction(row, column) ==
    /\ ~row.structured_data.none
    /\ column \in DOMAIN row.structured_data.data
    /\ row[column] = TextValue(row.structured_data.data[column])

\* the extraction recovered the field
Recovered(structured, column) ==
    /\ ~structured.none
    /\ column \in DOMAIN structured.data

\* C27: after a re-extraction the typed columns filled from structured_data
\* reflect only the new extraction: a column that held the value written by
\* the earlier extraction, for a field the new extraction did not recover,
\* does not keep that value
ReExtractionLeavesNoStaleField ==
    [][(op' = "re_extract_form" /\ ret'.status_code = 200) =>
          \A column \in AutoFillFields :
              (/\ WrittenByExtraction(form.row, column)
               /\ ~Recovered(form'.row.structured_data, column))
                  => form'.row[column].null]_vars

\* a missing and an empty aadhar_number count as the same value
AadharKey(aadhar_number) ==
    IF TruthyText(aadhar_number) THEN aadhar_number.value ELSE <<>>

\* C29: no two student profiles share the same (student_name,
\* aadhar_number) pair, a missing and an empty aadhar_number being the same
NoDuplicateProfile ==
    \A i, j \in DOMAIN form.student_profiles :
        (/\ form.student_profiles[i].student_name = form.student_profiles[j].student_name
         /\ AadharKey(form.student_profiles[i].aadhar_number)
               = AadharKey(form.student_profiles[j].aadhar_number))
            => i = j

\* ---------------------------------------------------------------------
\* Multi-page aggregation of the benchmark (backend/ocr/benchmark.py)
\* ---------------------------------------------------------------------

\* the lists _extract_file_with_provider starts from for a PDF
NewPdfAcc ==
    [raised |-> FALSE, all_raw_text |-> <<>>, all_confidences |-> <<>>,
     page_results |-> <<>>]

\* one round of the loop over the pages: the backend's exception is not
\* caught; the fragment is added if the text is not empty, the confidence
\* whenever it is a number
PdfPageStep(acc, page_index, page_result) ==
    IF acc.raised \/ page_result.fail THEN [acc EXCEPT !.raised = TRUE]
    ELSE [acc EXCEPT
            !.all_raw_text =
                IF Truthy(page_result.raw_text)
                THEN Append(@, PageFragment(page_index, page_result.raw_text))
                ELSE @,
            !.all_confidences = Append(@, page_result.confidence),
            !.page_results =
                Append(@, [page |-> page_index, raw_text |-> page_result.raw_text,
                           confidence |-> page_result.confidence,
                           provider |-> "none"])]

RECURSIVE PdfPageLoop(_, _, _)
PdfPageLoop(acc, page_index, page_outcomes) ==
    IF page_index > Len(page_outcomes) THEN acc
    ELSE PdfPageLoop(PdfPageStep(acc, page_index, page_outcomes[page_index]),
                     page_index + 1, page_outcomes)

\* what _extract_file_with_provider returns for a PDF
PdfAggregate(acc) ==
    [raised |-> acc.raised,
     raw_text |-> acc.all_raw_text,
     confidence |-> RoundedMean(SumSeq(acc.all_confidences), Len(acc.all_confidences)),
     pages_processed |-> Len(acc.page_results),
     page_results |-> acc.page_results]

\* _extract_file_with_provider(provider_name, file_path) on a PDF whose pages
\* the backend answers with page_outcomes
ExtractPdfWithProvider(page_outcomes) ==
    PdfAggregate(PdfPageLoop(NewPdfAcc, 1, page_outcomes))

\* the aggregation of upload_form and re_extract_form over the same pages,
\* with the local engine as the backend
RouteAggregate(with_provider, s, inst, page_outcomes) ==
    Aggregate(PageLoop(with_provider, s, inst, "tesseract", <<>>,
                       [p \in DOMAIN page_outcomes |->
                           [n \in AllNames |-> page_outcomes[p]]],
                       1, NewAcc("tesseract")),
              page_outcomes, "tesseract")

\* ---- the pages handed to the aggregations ----

\* a page the backend fails on; a page with text and confidence; a page
\* without text but with a confidence; a page with text and confidence 0
PdfPageOutcomes ==
    { Raises,
      Outcome(FALSE, 90, Text(0, 10, 0)),
      Outcome(FALSE, 50, EmptyText),
      Outcome(FALSE, 0, Text(0, 5, 0)) }

PageOutcomeLists == UNION { [1..n -> PdfPageOutcomes] : n \in 0..MaxPages }

InitPages ==
    /\ settings = [OCR_PROVIDER |-> "tesseract", OCR_ENABLE_TESSERACT |-> TRUE,
                   OCR_ENABLE_GOOGLE_VISION |-> FALSE]
    /\ installed = ProviderClasses
    /\ multi = NoMulti
    /\ op = "idle"
    /\ arg \in [page_outcomes : PageOutcomeLists]
    /\ ret = NoRet
    /\ calls = <<>>
    /\ form = NoForm

\* the benchmark extracts the PDF
BenchmarkPdf ==
    /\ op = "idle"
    /\ op' = "extract_file_with_provider"
    /\ ret' = ExtractPdfWithProvider(arg.page_outcomes)
    /\ UNCHANGED <<settings, installed, multi, arg, calls, form>>

\* upload_form (with_provider = FALSE) or re_extract_form extracts the PDF
RoutePdf(with_provider) ==
    /\ op = "idle"
    /\ op' = IF with_provider THEN "re_extract_form" ELSE "upload_form"
    /\ ret' = RouteAggregate(with_provider, settings, installed, arg.page_outcomes)
    /\ UNCHANGED <<settings, installed, multi, arg, calls, form>>

ReturnPages ==
    /\ op \in {"extract_file_with_provider", "re_extract_form", "upload_form"}
    /\ op' = "idle"
    /\ ret' = NoRet
    /\ UNCHANGED <<settings, installed, multi, arg, calls, form>>

NextPages ==
    \/ BenchmarkPdf
    \/ \E with_provider \in BOOLEAN : RoutePdf(with_provider)
    \/ ReturnPages

SpecPages == InitPages /\ [][NextPages]_vars

\* ---- properties of the aggregations ----

\* page_results without the 'provider' key of re_extract_form
PageEntries(page_results) ==
    [i \in DOMAIN page_results |->
        [page |-> page_results[i].page, raw_text |-> page_results[i].raw_text,
         confidence |-> page_results[i].confidence]]

\* the same raw_text, confidence, pages_processed and page_results
SameAggregate(x, y) ==
    /\ x.raw_text = y.raw_text
    /\ x.confidence = y.confidence
    /\ x.pages_processed = y.pages_processed
    /\ PageEntries(x.page_results) = PageEntries(y.page_results)

\* C28: for the same per-page backend outcomes the benchmark's multi-page
\* aggregation and the aggregation of the routes give the same raw_text,
\* confidence, pages_processed and page_results
AggregationsAgree ==
    /\ op = "extract_file_with_provider" =>
          /\ ~ret.raised
          /\ SameAggregate(ret, RouteAggregate(FALSE, settings, installed,
                                               arg.page_outcomes))
    /\ op \in {"upload_form", "re_extract_form"} =>
          /\ ~ExtractPdfWithProvider(arg.page_outcomes).raised
          /\ SameAggregate(ret, ExtractPdfWithProvider(arg.page_outcomes))

----------------------------------------------------------------------------
(* Aliases in the default provider list *)

\* the backend classes whose extract_text ran more than once in the call
InvokedAgain ==
    { calls[i].cls : i \in { i \in DOMAIN calls :
                               \E j \in DOMAIN calls :
                                  j < i /\ calls[j].cls = calls[i].cls } }

\* C30: in one extract_with_best_provider or extract_with_all_providers call
\* over the default list (self.available_providers) no backend class has its
\* extract_text invoked more than once, aliases included
EachBackendInvokedOnce ==
    (/\ op \in {"select_best", "run_all"}
     /\ arg.providers = multi.available_providers)
        => InvokedAgain = {}

====
